---- MODULE Spec2Model ----
(***************************************************************************)
(* Model of the mail gateway server (src/server/server.js).                *)
(*                                                                         *)
(* The server keeps one process-wide map, activeConnections, from session  *)
(* id to IMAP connection handle.  Every request handler runs on one        *)
(* cooperative event loop: a handler or callback runs to completion, and   *)
(* the suspension points are the callbacks of the IMAP library             *)
(* (openBox, getBoxes, fetch 'message' / 'error' / 'end'), the promise of  *)
(* the MIME parser, the promise of the SMTP transport and the watchdog     *)
(* timers.  Each of these is one action below.                             *)
(*                                                                         *)
(* One pipeline request (folders, emails, email/:id, send-email,           *)
(* forward-email) is followed at a time through its closure variables;     *)
(* connect and logout requests interleave with it at every suspension      *)
(* point.  The remote IMAP/SMTP servers are the environment: which events  *)
(* they raise, and in which order, is chosen nondeterministically.         *)
(*                                                                         *)
(* Spec follows the requests and their callbacks, SpecList the listing     *)
(* pipeline on large folders, SpecReg the sessions and the shutdown of the *)
(* process.  The string and tree functions of the handlers (sanitising,    *)
(* attachment detection, forward subject, folder flattening) are run on    *)
(* enumerated inputs by SpecSan, SpecStruct, SpecSubject and SpecFolders.  *)
(* The browser client (src/src/context/EmailContext.tsx) is followed by   *)
(* SpecRestore, SpecFetch and SpecDelete against the same registry.        *)
(***************************************************************************)
EXTENDS Integers, Sequences, FiniteSets, TLC

(* ------------------------------------------------------------------ *)
(* Bounds of the model                                                 *)
(* ------------------------------------------------------------------ *)
\* number of connect requests followed
MaxConn == 2
\* largest mailbox size (messages.total) the listing pipeline is run on
MaxTotal == 45
\* largest message identifier requested from the single-message pipeline
MaxId == 2
\* number of fragments an HTML body is assembled from
MaxFrags == 3
\* number of SIGINT signals delivered to the process
MaxSignals == 2
\* nesting depth of the structure trees the attachment walk is run on
MaxDepth == 2
\* number of pieces a subject is assembled from
MaxSubjectParts == 3
\* nesting depth of the folder trees below the top level
MaxFolderDepth == 2
\* number of re-renders of the client's EmailProvider that are followed
MaxRenders == 2

(* ------------------------------------------------------------------ *)
(* Program constants                                                   *)
(* ------------------------------------------------------------------ *)
\* Math.min(30, box.messages.total)
ListLimit == 30

SessionIds == {"s1", "s2"}
\* a request that carries no sessionId
NoSession == ""
RequestSids == SessionIds \cup {NoSession}

Handles == 1..(MaxConn + 1)
\* activeConnections.get of an unregistered id is undefined
NoHandle == 0

VARIABLES
    activeConnections,  \* Map: session id -> connection handle
    nextHandle,         \* handles created so far + 1
    endCalls,           \* handle -> number of imap.end() calls on it
    crashed,            \* an uncaught exception terminated the process
    ctlResp,            \* responses of the connect / logout requests so far (last one)
    ctlReq,             \* the last connect / logout request: its kind and sessionId
    sigints,            \* SIGINT signals delivered so far
    exited,             \* process.exit(0) was called
    ep,                 \* endpoint of the pipeline request being followed
    pc,                 \* its suspension point
    sid,                \* its sessionId
    mid,                \* its :id / originalEmailId
    imap,               \* the handle it captured from activeConnections
    regAtEntry,         \* activeConnections when the request entered
    responses,          \* calls of res.json on its res object, in order (Express
                        \* raises ERR_HTTP_HEADERS_SENT on a second call)
    ops,                \* mailbox / submission operations it issued, in order
    box,                \* the mailbox openBox selected
    timeout,            \* its watchdog timer: none / armed / fired / cleared
    hasResponded,
    fetchCompleted,
    fetchStarted,
    emails,             \* listing: summaries accumulated
    lst,                \* listing: fetch progress
    uidFetch,           \* email/:id: the UID fetch's events
    parser,             \* email/:id: simpleParser promise
    seqFetchE,          \* email/:id: seq fetch created in the 'error' handler
    seqFetchD,          \* email/:id: seq fetch created in the 'end' handler
    fwd,                \* forward-email: closure state
    html,               \* sanitiser: input body
    sanitizedHtml,      \* sanitiser: output body
    struct,             \* attachment walk: attrs.struct
    hasAttachments,     \* attachment walk: email.hasAttachments
    subject,            \* forward subject: originalEmail.subject
    fwdSubject,         \* forward subject: the subject of the forwarded mail
    boxTree,            \* folder walk: the tree getBoxes reported
    folders,            \* folder walk: the flattened list
    imapConfig,         \* handle -> imap._config.password of the Imap object
    env,                \* process.env after dotenv.config()
    configResp,         \* the responses of GET /api/config (last one)
    account,            \* client: the account state of EmailContext
    sessionId,          \* client: the sessionId state of EmailContext
    clientEmails,       \* client: the emails state, as the list of message ids
    selectedEmail,      \* client: the id of the selectedEmail state, or NoEmail
    isLoading,          \* client: the isLoading state
    fetchingEmailId,    \* client: the fetchingEmailId state
    render,             \* client: number of the render whose closures are current
    dirty,              \* client: a state setter changed a value since that render
    inFlight,           \* client: render -> keys of fetchEmail._inFlight of its closure
    fetches,            \* client: the pending fetchPromise of fetchEmail calls
    waiters,            \* client: fetchEmail calls awaiting another call's promise
    restore,            \* client: the restoreSession call
    del,                \* client: the deleteEmail call
    smtpIn,             \* submission client: imap._config and email.smtpConfig
    sendTransport,      \* submission client: what send-email creates
    fwdTransport        \* submission client: what forward-email creates

vars == <<activeConnections, nextHandle, endCalls, crashed, ctlResp, ctlReq, sigints,
          exited, ep, pc, sid, mid, imap, regAtEntry, responses, ops, box, timeout,
          hasResponded, fetchCompleted, fetchStarted, emails, lst, uidFetch, parser,
          seqFetchE, seqFetchD, fwd, html, sanitizedHtml, struct, hasAttachments,
          subject, fwdSubject, boxTree, folders, imapConfig, env, configResp, account,
          sessionId, clientEmails, selectedEmail, isLoading, fetchingEmailId, render,
          dirty, inFlight, fetches, waiters, restore, del,
          smtpIn, sendTransport, fwdTransport>>

procVars == <<sigints, exited>>
registryVars == <<activeConnections, nextHandle, endCalls, ctlResp, ctlReq, procVars,
                  imapConfig>>
sanVars == <<html, sanitizedHtml>>
structVars == <<struct, hasAttachments>>
subjectVars == <<subject, fwdSubject>>
folderVars == <<boxTree, folders>>
configVars == <<env, configResp>>
emailCtxVars == <<clientEmails, selectedEmail, isLoading, fetchingEmailId, render, dirty,
                  inFlight, fetches, waiters, restore, del>>
clientVars == <<account, sessionId, emailCtxVars>>
transportVars == <<smtpIn, sendTransport, fwdTransport>>
pureVars == <<sanVars, structVars, subjectVars, folderVars, configVars, clientVars,
              transportVars>>
closureVars == <<box, timeout, hasResponded, fetchCompleted, fetchStarted, emails,
                 lst, uidFetch, parser, seqFetchE, seqFetchD, fwd>>

(* ------------------------------------------------------------------ *)
(* Responses and operations                                            *)
(* ------------------------------------------------------------------ *)
\* res.status(status).json({success, partial?, ...}); body is a sequence
Resp(status, success, partial, kind, body) ==
    [status |-> status, success |-> success, partial |-> partial,
     kind |-> kind, body |-> body]

\* res.status(401).json({ success: false, error: 'Ungültige Session' })
InvalidSession == Resp(401, FALSE, FALSE, "InvalidSession", <<>>)

ErrorResp(status, kind) == Resp(status, FALSE, FALSE, kind, <<>>)

Op(name, h, arg) == [op |-> name, h |-> h, arg |-> arg]

OpNames(s) == {s[i].op : i \in 1..Len(s)}

\* the Map as a function: an id that is not a key maps to NoHandle
EmptyMap == [s \in SessionIds |-> NoHandle]
MapHas(m, s) == s \in SessionIds /\ m[s] # NoHandle
MapKeys(m) == {s \in SessionIds : m[s] # NoHandle}

\* !sessionId || !activeConnections.has(sessionId)   (negated)
ValidSessionNoHas(s) == s # NoSession /\ s \in SessionIds
ValidSession(s) == s # NoSession /\ MapHas(activeConnections, s)

\* the process is alive: no uncaught exception and no process.exit
Running == ~crashed /\ ~exited

\* activeConnections.get(sessionId)
Lookup(s) == IF s \in SessionIds THEN activeConnections[s] ELSE NoHandle


(* ------------------------------------------------------------------ *)
(* Initial state                                                       *)
(* ------------------------------------------------------------------ *)
NoBox == [selected |-> FALSE, total |-> 0, uidBase |-> 0, newestLast |-> TRUE,
          noUidAt |-> 0, badDateAt |-> 0, badStructAt |-> 0, noDateAt |-> 0]
NoFetch == [issued |-> FALSE, message |-> FALSE, error |-> FALSE, end |-> FALSE]
NoList == [start |-> 0, last |-> 0, next |-> 0, error |-> FALSE, end |-> FALSE]
NoFwd == [originalEmail |-> "undefined", promise |-> "none", issued |-> FALSE,
          message |-> FALSE, parser |-> "none", error |-> FALSE, end |-> FALSE,
          composedFrom |-> "none"]

\* the closure variables of a request before its handler ran
ClosureInit ==
    /\ box = NoBox
    /\ timeout = "none"
    /\ hasResponded = FALSE
    /\ fetchCompleted = FALSE
    /\ fetchStarted = FALSE
    /\ emails = <<>>
    /\ lst = NoList
    /\ uidFetch = NoFetch
    /\ parser = "none"
    /\ seqFetchE = NoFetch
    /\ seqFetchD = NoFetch
    /\ fwd = NoFwd

\* the closure is dropped with its request
ResetClosure ==
    /\ box' = NoBox
    /\ timeout' = "none"
    /\ hasResponded' = FALSE
    /\ fetchCompleted' = FALSE
    /\ fetchStarted' = FALSE
    /\ emails' = <<>>
    /\ lst' = NoList
    /\ uidFetch' = NoFetch
    /\ parser' = "none"
    /\ seqFetchE' = NoFetch
    /\ seqFetchD' = NoFetch
    /\ fwd' = NoFwd

RequestInit ==
    /\ ep = "none"
    /\ pc = "idle"
    /\ sid = NoSession
    /\ mid = 0
    /\ imap = NoHandle
    /\ regAtEntry = EmptyMap
    /\ responses = <<>>
    /\ ops = <<>>
    /\ ClosureInit

\* no Imap object was constructed for the handle
NoPassword == ""

\* useState<EmailAccount | null>(null)
NoAccount == <<>>

\* no message: selectedEmail and fetchingEmailId are null
NoEmail == 0

\* the renders of EmailProvider that are followed
Renders == 0..MaxRenders

\* an HTTP answer as the client reads it: whether the body is JSON, the
\* status, data.success and data.emails
Answer(json, status, success, list) ==
    [json |-> json, status |-> status, success |-> success, emails |-> list]
NoAnswer == Answer(FALSE, 0, FALSE, <<>>)

\* no restoreSession call and no deleteEmail call has been made
NoRestore == [pc |-> "idle", sid |-> NoSession, folders |-> NoAnswer, emails |-> NoAnswer,
              result |-> FALSE]
NoDelete == [pc |-> "idle", id |-> NoEmail, listed |-> FALSE, answer |-> NoAnswer,
             rejected |-> FALSE]

\* no connect or logout request has arrived
NoCtl == [op |-> "none", sessionId |-> NoSession]

\* const activeConnections = new Map(); no request has arrived
Init ==
    /\ activeConnections = EmptyMap
    /\ nextHandle = 1
    /\ endCalls = [h \in Handles |-> 0]
    /\ crashed = FALSE
    /\ ctlResp = <<>>
    /\ ctlReq = NoCtl
    /\ sigints = 0
    /\ exited = FALSE
    /\ RequestInit
    /\ html = <<>>
    /\ sanitizedHtml = <<>>
    /\ struct = <<>>
    /\ hasAttachments = <<>>
    /\ subject = <<>>
    /\ fwdSubject = <<>>
    /\ boxTree = <<>>
    /\ folders = <<>>
    /\ imapConfig = [h \in Handles |-> NoPassword]
    /\ env = <<>>
    /\ configResp = <<>>
    /\ account = NoAccount
    /\ sessionId = NoSession
    /\ clientEmails = <<>>
    /\ selectedEmail = NoEmail
    /\ isLoading = FALSE
    /\ fetchingEmailId = NoEmail
    /\ render = 0
    /\ dirty = FALSE
    /\ inFlight = [g \in Renders |-> {}]
    /\ fetches = {}
    /\ waiters = {}
    /\ restore = NoRestore
    /\ del = NoDelete
    /\ smtpIn = <<>>
    /\ sendTransport = <<>>
    /\ fwdTransport = <<>>

(* ------------------------------------------------------------------ *)
(* Session Registry: connect and logout                                *)
(* ------------------------------------------------------------------ *)
\* Map.set / Map.delete
MapSet(m, k, v) == [m EXCEPT ![k] = v]

MapDeleteKeeps(m, k) == m
MapDelete(m, k) == [m EXCEPT ![k] = NoHandle]

\* the registry after the try / catch of POST /api/connect: the handle is
\* stored under the drawn id only when createImapConnection resolved
registerAlways(m, s, h, ok) == MapSet(m, s, h)
register(m, s, h, ok) == IF ok THEN MapSet(m, s, h) ELSE m

\* req.body.password of the n-th connect request: what the user typed into
\* the login form
Password(n) == "password-" \o ToString(n)

\* POST /api/connect.  createImapConnection settles with 'ready' (ok) or with
\* 'error' / a constructor exception (~ok); the continuation after the await
\* draws sessionId from Math.random and stores the handle under it.
Connect(s, ok) ==
    /\ Running
    /\ nextHandle <= MaxConn
    /\ nextHandle' = nextHandle + 1
    /\ activeConnections' = register(activeConnections, s, nextHandle, ok)
    /\ ctlResp' = IF ok THEN <<Resp(200, TRUE, FALSE, "connect", <<s>>)>>
                  ELSE <<ErrorResp(500, "ConnectionFailure")>>
    /\ ctlReq' = [op |-> "connect", sessionId |-> IF ok THEN s ELSE NoSession]
    /\ imapConfig' = [imapConfig EXCEPT ![nextHandle] = Password(nextHandle)]
    /\ UNCHANGED <<endCalls, procVars, crashed, ep, pc, sid, mid, imap, regAtEntry,
                   responses, ops, closureVars, pureVars>>

\* POST /api/logout
Logout(s) ==
    /\ Running
    /\ IF s # NoSession /\ MapHas(activeConnections, s)
          THEN /\ endCalls' = [endCalls EXCEPT ![activeConnections[s]] = @ + 1]
               /\ activeConnections' = MapDelete(activeConnections, s)
          ELSE UNCHANGED <<endCalls, activeConnections>>
    /\ ctlResp' = <<Resp(200, TRUE, FALSE, "logout", <<>>)>>
    /\ ctlReq' = [op |-> "logout", sessionId |-> s]
    /\ UNCHANGED <<nextHandle, imapConfig, procVars, crashed, ep, pc, sid, mid, imap, regAtEntry,
                   responses, ops, closureVars, pureVars>>

(* ------------------------------------------------------------------ *)
(* Shutdown: process.on('SIGINT')                                      *)
(* ------------------------------------------------------------------ *)
\* the handles the loop over activeConnections.entries() visits
SigintTargetsNone == {}
SigintTargets == {activeConnections[s] : s \in MapKeys(activeConnections)}

\* the SIGINT handler: imap.end() on every registered handle, then
\* server.close(callback).  The handler stays installed and the registry is
\* not emptied, so every further signal runs the loop again.
Sigint ==
    /\ Running
    /\ sigints < MaxSignals
    /\ sigints' = sigints + 1
    /\ endCalls' = [h \in Handles |->
                      IF h \in SigintTargets THEN endCalls[h] + 1 ELSE endCalls[h]]
    /\ UNCHANGED <<activeConnections, nextHandle, imapConfig, ctlResp, ctlReq, exited, crashed, ep,
                   pc, sid, mid, imap, regAtEntry, responses, ops, closureVars, pureVars>>

\* the callback of server.close: process.exit(0), once the open HTTP
\* connections have ended
ServerClosed ==
    /\ Running
    /\ sigints >= 1
    /\ exited' = TRUE
    /\ UNCHANGED <<activeConnections, nextHandle, imapConfig, endCalls, ctlResp, ctlReq, sigints,
                   crashed, ep, pc, sid, mid, imap, regAtEntry, responses, ops,
                   closureVars, pureVars>>

(* ------------------------------------------------------------------ *)
(* Request boundary                                                    *)
(* ------------------------------------------------------------------ *)
\* a new pipeline request enters its handler
Enter(e, s, id) ==
    /\ Running
    /\ pc = "idle"
    /\ ep' = e
    /\ sid' = s
    /\ mid' = id
    /\ regAtEntry' = activeConnections

\* return res.status(401).json(...) before anything else
Reject401 ==
    /\ responses' = <<InvalidSession>>
    /\ pc' = "done"
    /\ UNCHANGED <<imap, ops, closureVars>>

\* the request has been answered and the environment raises no further event
\* for it: its closure is dropped
Finish ==
    /\ Running
    /\ pc # "idle"
    /\ Len(responses) >= 1
    /\ ep' = "none"
    /\ pc' = "idle"
    /\ sid' = NoSession
    /\ mid' = 0
    /\ imap' = NoHandle
    /\ regAtEntry' = EmptyMap
    /\ responses' = <<>>
    /\ ops' = <<>>
    /\ ResetClosure
    /\ UNCHANGED <<registryVars, crashed, pureVars>>

(* ------------------------------------------------------------------ *)
(* Folder Lister: GET /api/folders                                     *)
(* ------------------------------------------------------------------ *)
Leaf(n) == [name |-> n, delimiter |-> "/", children |-> <<>>]
Node(n, d, c) == [name |-> n, delimiter |-> d, children |-> c]

\* folder trees the remote server reports (children = <<>> is null)
BoxTrees ==
    { <<>>,
      <<Leaf("INBOX")>>,
      <<Node("INBOX", "/", <<Leaf("Work")>>), Leaf("Sent")>>,
      <<Node("INBOX", ".", <<Node("Work", ".", <<Leaf("2024")>>)>>)>> }

\* the recursive flattening; a path is the sequence of its string pieces
RECURSIVE processBoxes(_, _)
processBoxes(boxObj, path) ==
    IF boxObj = <<>> THEN <<>>
    ELSE LET b == Head(boxObj)
             fullPath == path \o <<b.name>>
         IN  <<[id |-> fullPath, name |-> b.name, path |-> fullPath, unread |-> 0]>>
             \o (IF b.children # <<>>
                    THEN processBoxes(b.children, fullPath \o <<"/">>)
                    ELSE <<>>)
             \o processBoxes(Tail(boxObj), path)

FoldersRequest(s, throws) ==
    /\ Enter("folders", s, 0)
    /\ IF ~ValidSession(s)
          THEN Reject401
          ELSE /\ imap' = Lookup(s)
               /\ ops' = <<Op("getBoxes", Lookup(s), 0)>>
               /\ IF throws
                     THEN /\ responses' = <<ErrorResp(500, "Exception")>>
                          /\ pc' = "done"
                     ELSE /\ responses' = <<>>
                          /\ pc' = "getBoxes"
               /\ UNCHANGED closureVars
    /\ UNCHANGED <<registryVars, crashed, pureVars>>

\* the getBoxes callback
GetBoxesCallback(err, boxes) ==
    /\ Running
    /\ ep = "folders" /\ pc = "getBoxes"
    /\ responses' = Append(responses,
                       IF err THEN ErrorResp(500, "getBoxes")
                       ELSE Resp(200, TRUE, FALSE, "folders", processBoxes(boxes, <<>>)))
    /\ pc' = "done"
    /\ UNCHANGED <<registryVars, crashed, ep, sid, mid, imap, regAtEntry, ops,
                   closureVars, pureVars>>

\* folder names and hierarchy delimiters of the remote server
FolderNames == {"INBOX", "Work", "2024"}
Delimiters == {"/", "."}

\* folder forests of depth at most d + 1 on a server whose delimiter is dl:
\* one folder, or one folder followed by a childless one of another name
RECURSIVE ForestsOfDepth(_, _)
ForestsOfDepth(d, dl) ==
    LET Children == IF d = 0 THEN {<<>>} ELSE {<<>>} \cup ForestsOfDepth(d - 1, dl)
        Nodes == {Node(n, dl, c) : n \in FolderNames, c \in Children}
    IN  {<<x>> : x \in Nodes}
          \cup UNION {{<<x, Node(n, dl, <<>>)>> : n \in FolderNames \ {x.name}} : x \in Nodes}

FolderTrees == {<<>>} \cup UNION {ForestsOfDepth(MaxFolderDepth, dl) : dl \in Delimiters}

\* the getBoxes callback received the server's folder tree
FolderReceive(tree) ==
    /\ boxTree = <<>>
    /\ boxTree' = <<tree>>
    /\ folders' = <<>>
    /\ UNCHANGED <<registryVars, crashed, ep, pc, sid, mid, imap, regAtEntry, responses,
                   ops, closureVars, transportVars, configVars, clientVars, sanVars, structVars, subjectVars>>

\* processBoxes(boxes)
FolderWalk ==
    /\ boxTree # <<>> /\ folders = <<>>
    /\ folders' = <<processBoxes(boxTree[1], <<>>)>>
    /\ UNCHANGED <<registryVars, crashed, ep, pc, sid, mid, imap, regAtEntry, responses,
                   ops, closureVars, transportVars, configVars, clientVars, sanVars, structVars, subjectVars, boxTree>>

NextFolders ==
    \/ \E tree \in FolderTrees : FolderReceive(tree)
    \/ FolderWalk

SpecFolders == Init /\ [][NextFolders]_vars

(* ------------------------------------------------------------------ *)
(* Outbound Dispatcher, Send: POST /api/send-email                     *)
(* ------------------------------------------------------------------ *)
\* throws: the synchronous part up to sendMail raised (caught: 500)
SendRequest(s, throws) ==
    /\ Enter("send", s, 0)
    /\ IF ~ValidSession(s)
          THEN Reject401
          ELSE /\ imap' = Lookup(s)
               /\ IF throws
                     THEN /\ ops' = <<>>
                          /\ responses' = <<ErrorResp(500, "DispatchFailure")>>
                          /\ pc' = "done"
                     ELSE /\ ops' = <<Op("sendMail", Lookup(s), 0)>>
                          /\ responses' = <<>>
                          /\ pc' = "sendMail"
               /\ UNCHANGED closureVars
    /\ UNCHANGED <<registryVars, crashed, pureVars>>

\* await transporter.sendMail(mailOptions) settles
SendMailSettled(ok) ==
    /\ Running
    /\ ep = "send" /\ pc = "sendMail"
    /\ responses' = Append(responses,
                       IF ok THEN Resp(200, TRUE, FALSE, "sent", <<>>)
                       ELSE ErrorResp(500, "DispatchFailure"))
    /\ pc' = "done"
    /\ UNCHANGED <<registryVars, crashed, ep, sid, mid, imap, regAtEntry, ops,
                   closureVars, pureVars>>


(* ------------------------------------------------------------------ *)
(* The remote mailbox                                                  *)
(* ------------------------------------------------------------------ *)
\* mailbox sizes the pipelines are run on: the sizes around the listing limit
Totals == {0, 1, 2, ListLimit - 1, ListLimit, ListLimit + 1, MaxTotal}

\* A selected mailbox: total messages at sequence numbers 1..total; the
\* message at sequence number n has UID n + uidBase (UIDs ascend with the
\* sequence numbers, and differ from them once messages were expunged);
\* its Date header ascends or descends with the sequence number.  The fetch
\* attributes of the message at noUidAt carry no uid, and the Date header of
\* the message at badDateAt does not parse, and the structure of the message
\* at badStructAt has a part whose disposition carries no type, and the
\* message at noDateAt has no Date header (0: no such message).
Boxes ==
    {[selected |-> TRUE, total |-> t, uidBase |-> 0, newestLast |-> TRUE,
      noUidAt |-> 0, badDateAt |-> 0, badStructAt |-> 0, noDateAt |-> 0] : t \in Totals}
    \cup {[selected |-> TRUE, total |-> t, uidBase |-> 1, newestLast |-> FALSE,
           noUidAt |-> 0, badDateAt |-> 0, badStructAt |-> 0, noDateAt |-> 0] : t \in Totals}
    \cup {[selected |-> TRUE, total |-> t, uidBase |-> 1, newestLast |-> TRUE,
           noUidAt |-> 1, badDateAt |-> t - 1, badStructAt |-> 0, noDateAt |-> 0] : t \in Totals \ {0}}
    \cup {[selected |-> TRUE, total |-> t, uidBase |-> 0, newestLast |-> TRUE,
           noUidAt |-> 0, badDateAt |-> 0, badStructAt |-> t, noDateAt |-> t - 1] :
              t \in Totals \ {0}}

UidAt(b, seqno) == seqno + b.uidBase
DateAt(b, seqno) == IF b.newestLast THEN seqno ELSE b.total + 1 - seqno
\* attrs.uid of the fetched message; 0 is an absent (falsy) uid
AttrsUid(b, seqno) == IF seqno = b.noUidAt THEN 0 ELSE UidAt(b, seqno)
\* new Date(x).getTime() of a string that is no date
NaN == -1
\* header.date && header.date[0]
HasDateHeader(b, seqno) == seqno # b.noDateAt
\* new Date(header.date[0]).getTime()
HeaderDate(b, seqno) ==
    IF seqno = b.badDateAt \/ ~HasDateHeader(b, seqno) THEN NaN ELSE DateAt(b, seqno)
\* new Date(): the clock while the listing is built, later than every Date
\* header of the mailbox
Now == MaxTotal + 2
HasSeq(b, n) == 1 <= n /\ n <= b.total
HasUid(b, u) == \E n \in 1..b.total : UidAt(b, n) = u

(* ------------------------------------------------------------------ *)
(* Attachment detection of the listing pipeline                        *)
(* ------------------------------------------------------------------ *)
\* attrs.struct is a tree: an array of items, or a part with an optional
\* disposition, an optional params.name and optional sub-parts.  A missing
\* disposition is NoDisposition, a missing name the empty string.
NoDisposition == "null"
\* a disposition object whose type is undefined
NoType == "undefined"
Part(d, n, ps) == [isArray |-> FALSE, disposition |-> d, name |-> n, parts |-> ps]
Array(items) == [isArray |-> TRUE, disposition |-> NoDisposition, name |-> "",
                 parts |-> items]

\* String.prototype.toLowerCase on the disposition types that occur
toLowerCase(t) ==
    CASE t = "ATTACHMENT" -> "attachment"
      [] t = "Attachment" -> "attachment"
      [] t = "INLINE" -> "inline"
      [] t = "Inline" -> "inline"
      [] OTHER -> t

\* struct.disposition && ['attachment', 'inline'].includes(type.toLowerCase())
dispositionCountsExact(st) ==
    st.disposition # NoDisposition /\ st.disposition \in {"attachment", "inline"}
dispositionCounts(st) ==
    st.disposition # NoDisposition
        /\ toLowerCase(st.disposition) \in {"attachment", "inline"}

\* findAttachmentParts(struct, attachments): the attachments array after the
\* walk (a part with both a disposition and a name is pushed twice)
RECURSIVE findAttachmentParts(_, _)
RECURSIVE forEachPart(_, _)
findAttachmentParts(st, attachments) ==
    IF st.isArray THEN forEachPart(st.parts, attachments)
    ELSE LET a1 == IF dispositionCounts(st) THEN Append(attachments, st) ELSE attachments
             a2 == IF st.name # "" THEN Append(a1, st) ELSE a1
         IN  IF st.parts # <<>> THEN forEachPart(st.parts, a2) ELSE a2

\* items.forEach(item => findAttachmentParts(item, attachments))
forEachPart(items, attachments) ==
    IF items = <<>> THEN attachments
    ELSE forEachPart(Tail(items), findAttachmentParts(Head(items), attachments))

\* struct.disposition.type.toLowerCase() raises a TypeError on a disposition
\* without a type, in whichever part of the tree the walk meets it
RECURSIVE walkRaises(_)
walkRaises(st) ==
    \/ ~st.isArray /\ st.disposition = NoType
    \/ \E i \in 1..Len(st.parts) : walkRaises(st.parts[i])

\* if (attrs.struct) { ...; email.hasAttachments = attachments.length > 0 };
\* attrs.struct is given as a sequence of zero or one tree
hasAttachmentsOf(optStruct) ==
    IF optStruct = <<>> THEN FALSE
    ELSE Len(findAttachmentParts(optStruct[1], <<>>)) > 0

\* parts without sub-parts
LeafParts ==
    { Part(NoDisposition, "", <<>>), Part("Attachment", "", <<>>),
      Part("INLINE", "", <<>>), Part("form-data", "", <<>>),
      Part(NoDisposition, "a.pdf", <<>>), Part("attachment", "a.pdf", <<>>) }

\* structure trees of nesting depth at most d
RECURSIVE StructsOfDepth(_)
StructsOfDepth(d) ==
    IF d = 0 THEN LeafParts
    ELSE LET S == StructsOfDepth(d - 1)
         IN  S \cup {Array(<<x>>) : x \in S}
               \cup {Array(<<x, y>>) : x \in LeafParts, y \in S}
               \cup {Part(NoDisposition, "", <<x>>) : x \in S}
               \cup {Part("form-data", "", <<x>>) : x \in S}

Structs == StructsOfDepth(MaxDepth)

\* the 'attributes' event of a message delivers attrs.struct
StructReceive(optStruct) ==
    /\ struct = <<>>
    /\ struct' = <<optStruct>>
    /\ hasAttachments' = <<>>
    /\ UNCHANGED <<registryVars, crashed, ep, pc, sid, mid, imap, regAtEntry, responses,
                   ops, closureVars, transportVars, configVars, clientVars, sanVars, subjectVars, folderVars>>

\* the attachment check of the 'attributes' handler
StructWalk ==
    /\ struct # <<>> /\ hasAttachments = <<>>
    /\ hasAttachments' = <<hasAttachmentsOf(struct[1])>>
    /\ UNCHANGED <<registryVars, crashed, ep, pc, sid, mid, imap, regAtEntry, responses,
                   ops, closureVars, transportVars, configVars, clientVars, sanVars, subjectVars, folderVars, struct>>

NextStruct ==
    \/ \E st \in Structs : StructReceive(<<st>>)
    \/ StructReceive(<<>>)
    \/ StructWalk

SpecStruct == Init /\ [][NextStruct]_vars

(* ------------------------------------------------------------------ *)
(* Listing Pipeline: GET /api/emails                                   *)
(* ------------------------------------------------------------------ *)
Min(a, b) == IF a < b THEN a ELSE b
Max(a, b) == IF a > b THEN a ELSE b

\* const lastCount = Math.min(30, box.messages.total)
lastCount(total) == Min(ListLimit, total)
\* const start = Math.max(1, box.messages.total - lastCount + 1)
startOffByOne(total) == Max(1, total - lastCount(total))
start(total) == Max(1, total - lastCount(total) + 1)

\* Number.prototype.toString / String.prototype.toString of a non-negative
\* integer: its decimal digits
Digits == <<"0", "1", "2", "3", "4", "5", "6", "7", "8", "9">>
RECURSIVE toString(_)
toString(n) ==
    IF n < 10 THEN <<Digits[n + 1]>>
    ELSE toString(n \div 10) \o <<Digits[(n % 10) + 1]>>

\* the value of a digit character, NaN for any other character
digitValue(c) ==
    IF \E d \in 1..10 : Digits[d] = c
       THEN (CHOOSE d \in 1..10 : Digits[d] = c) - 1
       ELSE NaN

\* parseInt(str): the value of the leading decimal digits, NaN without one
RECURSIVE parseDigits(_, _)
parseDigits(str, acc) ==
    IF str = <<>> \/ digitValue(Head(str)) = NaN THEN acc
    ELSE parseDigits(Tail(str), 10 * acc + digitValue(Head(str)))
parseInt(str) ==
    IF str = <<>> \/ digitValue(Head(str)) = NaN THEN NaN ELSE parseDigits(str, 0)

\* uid: null
null == <<>>

\* the structure the fetch reports for the message at a sequence number:
\* every second message is a multipart with a named part
StructAt(b, seqno) ==
    IF seqno = b.badStructAt
       THEN <<Array(<<Part(NoDisposition, "", <<>>), Part(NoType, "", <<>>)>>)>>
    ELSE IF seqno % 2 = 0
       THEN <<Array(<<Part(NoDisposition, "", <<>>),
                      Array(<<Part("attachment", "a.pdf", <<>>)>>)>>)>>
       ELSE <<Array(<<Part(NoDisposition, "", <<>>)>>)>>

\* new Date(x).getTime() is NaN
isNaN(d) == d < 0

\* if (attrs.uid) { email.uid = ...; email.id = ... }: the id of the summary
summaryIdSeqno(b, seqno) == toString(seqno)
summaryId(b, seqno) ==
    IF AttrsUid(b, seqno) # 0 THEN toString(AttrsUid(b, seqno)) ELSE toString(seqno)

\* email.date: new Date() when the message is created, replaced by the Date
\* header when there is one, and by new Date() again when that is invalid
emailDateUnchecked(b, seqno) == HeaderDate(b, seqno)
emailDate(b, seqno) ==
    IF ~HasDateHeader(b, seqno) THEN Now
    ELSE IF isNaN(HeaderDate(b, seqno)) THEN Now
    ELSE HeaderDate(b, seqno)

\* the summary the 'message' / 'attributes' / 'body' / 'end' handlers of one
\* message build: id is the sequence number, overwritten by the UID when the
\* attributes carry one; an unparseable Date header is replaced by new Date()
Summary(b, seqno) ==
    [id |-> summaryId(b, seqno),
     uid |-> IF AttrsUid(b, seqno) # 0 THEN toString(AttrsUid(b, seqno)) ELSE null,
     seqno |-> seqno,
     date |-> emailDate(b, seqno),
     hasAttachments |-> hasAttachmentsOf(StructAt(b, seqno))]

\* the comparator of emails.sort: negative when a sorts before b
compare(a, b) ==
    IF isNaN(a.date) \/ isNaN(b.date) THEN parseInt(b.id) - parseInt(a.id)
    ELSE b.date - a.date

\* Array.prototype.sort: a stable insertion sort under compare
RECURSIVE insert(_, _)
insert(sorted, x) ==
    IF sorted = <<>> THEN <<x>>
    ELSE LET l == sorted[Len(sorted)]
         IN  IF compare(l, x) <= 0 THEN Append(sorted, x)
             ELSE Append(insert(SubSeq(sorted, 1, Len(sorted) - 1), x), l)

RECURSIVE sort(_)
sort(a) ==
    IF a = <<>> THEN <<>>
    ELSE insert(sort(SubSeq(a, 1, Len(a) - 1)), a[Len(a)])

\* clearTimeout(timeout)
clearTimeoutNoop(t) == t
clearTimeout(t) == IF t = "armed" THEN "cleared" ELSE t

EmailsRequest(s, throws) ==
    /\ Enter("emails", s, 0)
    /\ IF ~ValidSession(s)
          THEN Reject401
          ELSE /\ imap' = Lookup(s)
               /\ ops' = <<Op("openBox", Lookup(s), 0)>>
               /\ IF throws
                     THEN /\ responses' = <<ErrorResp(500, "Exception")>>
                          /\ pc' = "done"
                     ELSE /\ responses' = <<>>
                          /\ pc' = "openBox"
               /\ UNCHANGED closureVars
    /\ UNCHANGED <<registryVars, crashed, pureVars>>

\* if (err) of the openBox callbacks
openBoxFailedNever(err) == FALSE
openBoxFailed(err) == err

\* the box argument of the openBox callback: undefined with an error
callbackBox(err, b) == IF err THEN NoBox ELSE b

\* the openBox callback: error, empty folder, or range, watchdog and fetch
ListOpenBox(err, b) ==
    /\ Running
    /\ ep = "emails" /\ pc = "openBox"
    /\ IF openBoxFailed(err)
          THEN /\ responses' = Append(responses, ErrorResp(500, "openBox"))
               /\ pc' = "done"
               /\ UNCHANGED <<ops, box, timeout, lst>>
          ELSE IF callbackBox(err, b).total = 0
          THEN /\ responses' = Append(responses, Resp(200, TRUE, FALSE, "emails", <<>>))
               /\ pc' = "done"
               /\ box' = callbackBox(err, b)
               /\ UNCHANGED <<ops, timeout, lst>>
          ELSE /\ box' = callbackBox(err, b)
               /\ timeout' = "armed"
               /\ ops' = Append(ops, Op("seq.fetch", imap, <<start(b.total), b.total>>))
               /\ lst' = [start |-> start(b.total), last |-> b.total,
                          next |-> start(b.total), error |-> FALSE, end |-> FALSE]
               /\ pc' = "fetching"
               /\ UNCHANGED responses
    /\ UNCHANGED <<registryVars, crashed, ep, sid, mid, imap, regAtEntry, hasResponded,
                   fetchCompleted, fetchStarted, emails, uidFetch, parser, seqFetchE,
                   seqFetchD, fwd, pureVars>>

\* the 'attributes' handler runs the walk outside any try: what the walk
\* raises leaves the handler and the event emitter that called it
attributesRaise(optStruct) == optStruct # <<>> /\ walkRaises(optStruct[1])

\* fetch 'message' through the message's 'end': emails.push(email), unless
\* the 'attributes' handler raised, which nothing catches
ListMessage ==
    /\ Running
    /\ ep = "emails" /\ pc = "fetching"
    /\ ~lst.error /\ ~lst.end
    /\ lst.next <= lst.last
    /\ IF attributesRaise(StructAt(box, lst.next))
          THEN /\ crashed' = TRUE
               /\ UNCHANGED <<emails, lst>>
          ELSE /\ emails' = Append(emails, Summary(box, lst.next))
               /\ lst' = [lst EXCEPT !.next = @ + 1]
               /\ UNCHANGED crashed
    /\ UNCHANGED <<registryVars, ep, pc, sid, mid, imap, regAtEntry, responses,
                   ops, box, timeout, hasResponded, fetchCompleted, fetchStarted,
                   uidFetch, parser, seqFetchE, seqFetchD, fwd, pureVars>>

\* what the watchdog and the 'error' handler answer with
PartialOrNoFlag(failure) ==
    IF Len(emails) > 0 THEN Resp(200, TRUE, FALSE, "emails", emails) ELSE failure
PartialOr(failure) ==
    IF Len(emails) > 0 THEN Resp(200, TRUE, TRUE, "emails", emails) ELSE failure

\* the 30 s setTimeout callback
ListWatchdog ==
    /\ Running
    /\ ep = "emails" /\ timeout = "armed"
    /\ timeout' = "fired"
    /\ IF ~hasResponded
          THEN /\ hasResponded' = TRUE
               /\ responses' = Append(responses, PartialOr(ErrorResp(500, "FetchTimeout")))
          ELSE UNCHANGED <<hasResponded, responses>>
    /\ UNCHANGED <<registryVars, crashed, ep, pc, sid, mid, imap, regAtEntry, ops, box,
                   fetchCompleted, fetchStarted, emails, lst, uidFetch, parser,
                   seqFetchE, seqFetchD, fwd, pureVars>>

\* fetch.once('error')
ListFetchError ==
    /\ Running
    /\ ep = "emails" /\ pc = "fetching"
    /\ ~lst.error
    /\ lst' = [lst EXCEPT !.error = TRUE]
    /\ IF ~hasResponded
          THEN /\ timeout' = clearTimeout(timeout)
               /\ hasResponded' = TRUE
               /\ responses' = Append(responses, PartialOr(ErrorResp(500, "fetch")))
          ELSE UNCHANGED <<timeout, hasResponded, responses>>
    /\ UNCHANGED <<registryVars, crashed, ep, pc, sid, mid, imap, regAtEntry, ops, box,
                   fetchCompleted, fetchStarted, emails, uidFetch, parser, seqFetchE,
                   seqFetchD, fwd, pureVars>>

\* if (!hasResponded) of the 'end' handler
ListEndRespondsAlways == TRUE
ListEndResponds == ~hasResponded

\* fetch.once('end'): the list is sorted in place and sent
ListFetchEnd ==
    /\ Running
    /\ ep = "emails" /\ pc = "fetching"
    /\ ~lst.end
    /\ lst' = [lst EXCEPT !.end = TRUE]
    /\ timeout' = clearTimeout(timeout)
    /\ IF ListEndResponds
          THEN /\ hasResponded' = TRUE
               /\ emails' = sort(emails)
               /\ responses' = Append(responses, Resp(200, TRUE, FALSE, "emails", sort(emails)))
          ELSE UNCHANGED <<hasResponded, emails, responses>>
    /\ UNCHANGED <<registryVars, crashed, ep, pc, sid, mid, imap, regAtEntry, ops, box,
                   fetchCompleted, fetchStarted, uidFetch, parser, seqFetchE, seqFetchD,
                   fwd, pureVars>>

(* ------------------------------------------------------------------ *)
(* HTML sanitisation of the single-message pipeline                    *)
(* ------------------------------------------------------------------ *)
\* A string is the sequence of its characters.
DQ == "\""
SQ == "'"
WordChars == {"a", "b", "c", "i", "n", "o", "p", "r", "s", "t", "x",
              "C", "I", "P", "R", "S", "T"}

\* the i flag: case-insensitive comparison
toLower(c) ==
    CASE c = "S" -> "s" [] c = "C" -> "c" [] c = "R" -> "r" [] c = "I" -> "i"
      [] c = "P" -> "p" [] c = "T" -> "t" [] OTHER -> c

\* the literal lit occurs in str at index i (1-based), ignoring case
LitAtI(str, i, lit) ==
    /\ i + Len(lit) - 1 <= Len(str)
    /\ \A k \in 1..Len(lit) : toLower(str[i + k - 1]) = lit[k]

ScriptOpen == <<"<", "s", "c", "r", "i", "p", "t">>
ScriptClose == <<"<", "/", "s", "c", "r", "i", "p", "t", ">">>

\* first index >= from where ScriptClose occurs, or 0
RECURSIVE firstClose(_, _)
firstClose(str, from) ==
    IF from > Len(str) THEN 0
    ELSE IF LitAtI(str, from, ScriptClose) THEN from
    ELSE firstClose(str, from + 1)

\* /<script\b[^<]*(?:(?!<\/script>)<[^<]*)*<\/script>/gi matched at index i:
\* the index after the match, or 0.  "<script" must end at a word boundary;
\* [^<]* and the group consume up to the first "</script>", which the
\* lookahead forbids the group to cross.
scriptMatchEnd(str, i) ==
    IF /\ LitAtI(str, i, ScriptOpen)
       /\ (i + 7 > Len(str) \/ str[i + 7] \notin WordChars)
       /\ firstClose(str, i + 7) # 0
    THEN firstClose(str, i + 7) + Len(ScriptClose)
    ELSE 0

\* index after the run of \w characters starting at i
RECURSIVE wordEnd(_, _)
wordEnd(str, i) ==
    IF i <= Len(str) /\ str[i] \in WordChars THEN wordEnd(str, i + 1) ELSE i

\* first index >= from holding the character q, or 0
RECURSIVE firstChar(_, _, _)
firstChar(str, from, q) ==
    IF from > Len(str) THEN 0
    ELSE IF str[from] = q THEN from
    ELSE firstChar(str, from + 1, q)

\* /on\w+="[^"]*"/g (q = DQ) and /on\w+='[^']*'/g (q = SQ) matched at index
\* i: the index after the match, or 0.  \w+ is greedy and "=" is no word
\* character, so \w+ takes the whole run of word characters.
handlerMatchEnd(str, i, q) ==
    LET w == wordEnd(str, i + 2)
    IN  IF /\ i + 1 <= Len(str)
           /\ str[i] = "o" /\ str[i + 1] = "n"
           /\ w > i + 2
           /\ w + 1 <= Len(str)
           /\ str[w] = "=" /\ str[w + 1] = q
           /\ firstChar(str, w + 2, q) # 0
        THEN firstChar(str, w + 2, q) + 1
        ELSE 0

\* String.prototype.replace(re, '') with the g flag: one left-to-right pass
\* that deletes each leftmost match and resumes after it
RECURSIVE removeScripts(_, _)
removeScripts(str, i) ==
    IF i > Len(str) THEN <<>>
    ELSE IF scriptMatchEnd(str, i) # 0 THEN removeScripts(str, scriptMatchEnd(str, i))
    ELSE <<str[i]>> \o removeScripts(str, i + 1)

RECURSIVE removeHandlers(_, _, _)
removeHandlers(str, i, q) ==
    IF i > Len(str) THEN <<>>
    ELSE IF handlerMatchEnd(str, i, q) # 0
         THEN removeHandlers(str, handlerMatchEnd(str, i, q), q)
    ELSE <<str[i]>> \o removeHandlers(str, i + 1, q)

\* parsed.html.replace(scripts).replace(on..="..").replace(on..='..')
sanitize(str) ==
    removeHandlers(removeHandlers(removeScripts(str, 1), 1, DQ), 1, SQ)

hasScript(str) == \E i \in 1..Len(str) : scriptMatchEnd(str, i) # 0
hasHandler(str) ==
    \E i \in 1..Len(str) : handlerMatchEnd(str, i, DQ) # 0 \/ handlerMatchEnd(str, i, SQ) # 0

\* the pieces HTML bodies are assembled from
Fragments ==
    { <<"<", "s", "c", "r", "i", "p", "t", ">">>,
      <<"<", "/", "s", "c", "r", "i", "p", "t", ">">>,
      <<"<", "S", "C", "R", "I", "P", "T", " ", "x", ">">>,
      <<"<", "s", "c", "r">>,
      <<"i", "p", "t", ">", "<", "/", "s", "c", "r", "i", "p", "t", ">">>,
      <<"x">>,
      <<"o", "n", "x", "=", DQ, "a", DQ>>,
      <<"o", "n", "x", "=", SQ, "a", SQ>>,
      <<"o">>,
      <<"n", "x", "=", DQ, "b", DQ>> }

RECURSIVE HtmlOfLen(_)
HtmlOfLen(n) ==
    IF n = 0 THEN {<<>>}
    ELSE {h \o f : h \in HtmlOfLen(n - 1), f \in Fragments}

HtmlInputs == UNION {HtmlOfLen(n) : n \in 0..MaxFrags}

\* a message with an HTML part was parsed
SanReceive(h) ==
    /\ html' = h
    /\ sanitizedHtml' = <<>>
    /\ UNCHANGED <<registryVars, crashed, ep, pc, sid, mid, imap, regAtEntry, responses,
                   ops, closureVars, transportVars, configVars, clientVars, structVars, subjectVars, folderVars>>

\* the sanitising statement of the parser's then-handler; the result is kept
\* as a one-element sequence
SanRun ==
    /\ sanitizedHtml = <<>>
    /\ sanitizedHtml' = <<sanitize(html)>>
    /\ UNCHANGED <<registryVars, crashed, ep, pc, sid, mid, imap, regAtEntry, responses,
                   ops, closureVars, transportVars, configVars, clientVars, html, structVars, subjectVars, folderVars>>

NextSan ==
    \/ \E h \in HtmlInputs : SanReceive(h)
    \/ SanRun

SpecSan == Init /\ [][NextSan]_vars

(* ------------------------------------------------------------------ *)
(* Single-Message Pipeline: GET /api/email/:id                         *)
(* ------------------------------------------------------------------ *)
Ids == 1..MaxId

\* mailboxes the single-message and forward pipelines are run on
SmallBoxes == {b \in Boxes : b.total <= MaxId}

\* .replace(/&/g, '&amp;').replace(/</g, '&lt;').replace(/>/g, '&gt;')
RECURSIVE escape(_)
escape(str) ==
    IF str = <<>> THEN <<>>
    ELSE (CASE Head(str) = "&" -> <<"&", "a", "m", "p", ";">>
            [] Head(str) = "<" -> <<"&", "l", "t", ";">>
            [] Head(str) = ">" -> <<"&", "g", "t", ";">>
            [] OTHER -> <<Head(str)>>) \o escape(Tail(str))

\* what simpleParser resolves with: html, textAsHtml and text are strings,
\* empty when the message has no such part
ParsedMails ==
    { [html |-> <<"<", "s", "c", "r", "i", "p", "t", ">", "x", "<", "/", "s", "c",
                  "r", "i", "p", "t", ">", "x">>,
       textAsHtml |-> <<"x">>, text |-> <<"x">>],
      [html |-> <<>>, textAsHtml |-> <<"<", "p", ">", "x", "<", "/", "p", ">">>,
       text |-> <<"x">>],
      [html |-> <<>>, textAsHtml |-> <<>>, text |-> <<"<", "x", ">">>],
      [html |-> <<>>, textAsHtml |-> <<>>, text |-> <<>>] }

\* the body of the then-handler's emailData
body(parsed) ==
    IF parsed.html # <<>> THEN sanitize(parsed.html)
    ELSE IF parsed.textAsHtml # <<>> THEN parsed.textAsHtml
    ELSE IF parsed.text # <<>> THEN <<"<", "p", "r", "e", ">">> \o escape(parsed.text)
                                    \o <<"<", "/", "p", "r", "e", ">">>
    ELSE <<"empty">>

\* res.json({ success: true, email: emailData }): the message parsed is the
\* one the UID fetch of id delivered
emailData(id, parsed) ==
    Resp(200, TRUE, FALSE, "email",
         <<[id |-> id, uid |-> id, placeholder |-> FALSE, body |-> body(parsed),
            isRead |-> TRUE]>>)

\* res.json({ success: true, email: fallbackEmail, partial: true })
fallbackEmail(id) ==
    Resp(200, TRUE, TRUE, "email",
         <<[id |-> id, uid |-> 0, placeholder |-> TRUE, body |-> <<"error-message">>,
            isRead |-> TRUE]>>)

\* if (!hasResponded) { hasResponded = true; clearTimeout(timeout); res...json(r) }
RespondOnce(r) ==
    IF ~hasResponded
       THEN /\ hasResponded' = TRUE
            /\ timeout' = clearTimeout(timeout)
            /\ responses' = Append(responses, r)
       ELSE UNCHANGED <<hasResponded, timeout, responses>>

EmailRequest(s, id, throws) ==
    /\ Enter("email", s, id)
    /\ IF ~ValidSession(s)
          THEN Reject401
          ELSE /\ imap' = Lookup(s)
               /\ ops' = <<Op("openBox", Lookup(s), 0)>>
               /\ IF throws
                     THEN /\ responses' = <<ErrorResp(500, "Exception")>>
                          /\ pc' = "done"
                     ELSE /\ responses' = <<>>
                          /\ pc' = "openBox"
               /\ UNCHANGED closureVars
    /\ UNCHANGED <<registryVars, crashed, pureVars>>

\* the openBox callback: the watchdog is armed, then imap.fetch(id) is issued
\* inside try; throws: imap.fetch raised synchronously
EmailOpenBox(err, b, throws) ==
    /\ Running
    /\ ep = "email" /\ pc = "openBox"
    /\ IF openBoxFailed(err)
          THEN /\ responses' = Append(responses, ErrorResp(500, "openBox"))
               /\ pc' = "done"
               /\ UNCHANGED <<ops, box, timeout, hasResponded, fetchStarted, uidFetch>>
          ELSE /\ box' = callbackBox(err, b)
               /\ fetchStarted' = TRUE
               /\ IF throws
                     THEN /\ hasResponded' = TRUE
                          /\ timeout' = "cleared"
                          /\ responses' = Append(responses, ErrorResp(500, "Exception"))
                          /\ pc' = "done"
                          /\ UNCHANGED <<ops, uidFetch>>
                     ELSE /\ timeout' = "armed"
                          /\ ops' = Append(ops, Op("fetch", imap, mid))
                          /\ uidFetch' = [NoFetch EXCEPT !.issued = TRUE]
                          /\ pc' = "fetching"
                          /\ UNCHANGED <<hasResponded, responses>>
    /\ UNCHANGED <<registryVars, crashed, ep, sid, mid, imap, regAtEntry, fetchCompleted,
                   emails, lst, parser, seqFetchE, seqFetchD, fwd, pureVars>>

\* the 180 s setTimeout callback: it neither reads nor sets hasResponded
EmailWatchdog ==
    /\ Running
    /\ ep = "email" /\ timeout = "armed"
    /\ timeout' = "fired"
    /\ responses' = Append(responses, ErrorResp(504, "FetchTimeout"))
    /\ UNCHANGED <<registryVars, crashed, ep, pc, sid, mid, imap, regAtEntry, ops, box,
                   hasResponded, fetchCompleted, fetchStarted, emails, lst, uidFetch,
                   parser, seqFetchE, seqFetchD, fwd, pureVars>>

\* fetch 'message', its body stream read to 'end': simpleParser is started;
\* throws: the stream handler's try block raised before the parser started
EmailMessage(throws) ==
    /\ Running
    /\ ep = "email" /\ pc = "fetching"
    /\ uidFetch.issued /\ ~uidFetch.message /\ ~uidFetch.error /\ ~uidFetch.end
    /\ HasUid(box, mid)
    /\ uidFetch' = [uidFetch EXCEPT !.message = TRUE]
    /\ IF throws
          THEN /\ RespondOnce(ErrorResp(500, "Exception"))
               /\ UNCHANGED parser
          ELSE /\ parser' = "pending"
               /\ UNCHANGED <<hasResponded, timeout, responses>>
    /\ UNCHANGED <<registryVars, crashed, ep, pc, sid, mid, imap, regAtEntry, ops, box,
                   fetchCompleted, fetchStarted, emails, lst, seqFetchE, seqFetchD, fwd,
                   pureVars>>

\* simpleParser(...).then(parsed => ...); throws: building emailData raised
\* (after fetchCompleted was set), which runs the catch-handler to no effect
ParserThen(parsed, throws) ==
    /\ Running
    /\ ep = "email" /\ parser = "pending"
    /\ IF fetchCompleted
          THEN /\ parser' = "resolved"
               /\ UNCHANGED <<fetchCompleted, ops, hasResponded, timeout, responses>>
          ELSE /\ fetchCompleted' = TRUE
               /\ IF throws
                     THEN /\ parser' = "threw"
                          /\ UNCHANGED <<ops, hasResponded, timeout, responses>>
                     ELSE /\ parser' = "resolved"
                          /\ ops' = Append(ops, Op("setFlags", imap, mid))
                          /\ RespondOnce(emailData(mid, parsed))
    /\ UNCHANGED <<registryVars, crashed, ep, pc, sid, mid, imap, regAtEntry, box,
                   fetchStarted, emails, lst, uidFetch, seqFetchE, seqFetchD, fwd, pureVars>>

\* simpleParser(...).catch(err => ...): the parser rejected
ParserCatch ==
    /\ Running
    /\ ep = "email" /\ parser = "pending"
    /\ parser' = "rejected"
    /\ IF ~hasResponded /\ ~fetchCompleted
          THEN /\ fetchCompleted' = TRUE
               /\ RespondOnce(fallbackEmail(mid))
          ELSE UNCHANGED <<fetchCompleted, hasResponded, timeout, responses>>
    /\ UNCHANGED <<registryVars, crashed, ep, pc, sid, mid, imap, regAtEntry, ops, box,
                   fetchStarted, emails, lst, uidFetch, seqFetchE, seqFetchD, fwd, pureVars>>

\* try { seqFetch = imap.seq.fetch(id, ...) ... } catch: the sequence-number
\* fallback is created; no 'message' handler is attached to it
StartSeqFetch(name, throws) ==
    IF throws
       THEN /\ RespondOnce(ErrorResp(500, "Exception"))
            /\ UNCHANGED <<ops, seqFetchE, seqFetchD>>
       ELSE /\ ops' = Append(ops, Op("seq.fetch", imap, mid))
            /\ IF name = "E"
                  THEN /\ seqFetchE' = [NoFetch EXCEPT !.issued = TRUE]
                       /\ UNCHANGED seqFetchD
                  ELSE /\ seqFetchD' = [NoFetch EXCEPT !.issued = TRUE]
                       /\ UNCHANGED seqFetchE
            /\ UNCHANGED <<hasResponded, timeout, responses>>

\* fetch.once('error')
EmailFetchError(throws) ==
    /\ Running
    /\ ep = "email" /\ pc = "fetching"
    /\ uidFetch.issued /\ ~uidFetch.error
    /\ uidFetch' = [uidFetch EXCEPT !.error = TRUE]
    /\ IF ~hasResponded /\ ~fetchCompleted
          THEN StartSeqFetch("E", throws)
          ELSE UNCHANGED <<ops, seqFetchE, seqFetchD, hasResponded, timeout, responses>>
    /\ UNCHANGED <<registryVars, crashed, ep, pc, sid, mid, imap, regAtEntry, box,
                   fetchCompleted, fetchStarted, emails, lst, parser, fwd, pureVars>>

\* fetch.once('end')
EmailFetchEnd(throws) ==
    /\ Running
    /\ ep = "email" /\ pc = "fetching"
    /\ uidFetch.issued /\ ~uidFetch.end
    /\ uidFetch' = [uidFetch EXCEPT !.end = TRUE]
    /\ IF ~hasResponded /\ ~fetchCompleted /\ fetchStarted
          THEN StartSeqFetch("D", throws)
          ELSE UNCHANGED <<ops, seqFetchE, seqFetchD, hasResponded, timeout, responses>>
    /\ UNCHANGED <<registryVars, crashed, ep, pc, sid, mid, imap, regAtEntry, box,
                   fetchCompleted, fetchStarted, emails, lst, parser, fwd, pureVars>>

\* seqFetch.once('error') of the fallback created in the 'error' handler
SeqFetchEError ==
    /\ Running
    /\ ep = "email"
    /\ seqFetchE.issued /\ ~seqFetchE.error
    /\ seqFetchE' = [seqFetchE EXCEPT !.error = TRUE]
    /\ RespondOnce(ErrorResp(500, "seqFetch"))
    /\ UNCHANGED <<registryVars, crashed, ep, pc, sid, mid, imap, regAtEntry, ops, box,
                   fetchCompleted, fetchStarted, emails, lst, uidFetch, parser,
                   seqFetchD, fwd, pureVars>>

\* seqFetch.once('end') of either fallback
NotFoundOnce ==
    IF ~hasResponded /\ ~fetchCompleted
       THEN RespondOnce(ErrorResp(404, "NotFound"))
       ELSE UNCHANGED <<hasResponded, timeout, responses>>

SeqFetchEEnd ==
    /\ Running
    /\ ep = "email"
    /\ seqFetchE.issued /\ ~seqFetchE.end
    /\ seqFetchE' = [seqFetchE EXCEPT !.end = TRUE]
    /\ NotFoundOnce
    /\ UNCHANGED <<registryVars, crashed, ep, pc, sid, mid, imap, regAtEntry, ops, box,
                   fetchCompleted, fetchStarted, emails, lst, uidFetch, parser,
                   seqFetchD, fwd, pureVars>>

SeqFetchDEnd ==
    /\ Running
    /\ ep = "email"
    /\ seqFetchD.issued /\ ~seqFetchD.end
    /\ seqFetchD' = [seqFetchD EXCEPT !.end = TRUE]
    /\ NotFoundOnce
    /\ UNCHANGED <<registryVars, crashed, ep, pc, sid, mid, imap, regAtEntry, ops, box,
                   fetchCompleted, fetchStarted, emails, lst, uidFetch, parser,
                   seqFetchE, fwd, pureVars>>

\* 'error' on the fallback created in the 'end' handler: no listener is
\* attached, so the emitter throws and the exception is uncaught
SeqFetchDError ==
    /\ Running
    /\ ep = "email"
    /\ seqFetchD.issued /\ ~seqFetchD.error
    /\ seqFetchD' = [seqFetchD EXCEPT !.error = TRUE]
    /\ crashed' = TRUE
    /\ UNCHANGED <<registryVars, ep, pc, sid, mid, imap, regAtEntry, responses, ops, box,
                   timeout, hasResponded, fetchCompleted, fetchStarted, emails, lst,
                   uidFetch, parser, seqFetchE, fwd, pureVars>>

EmailPipeline ==
    \/ \E err \in BOOLEAN, b \in SmallBoxes, throws \in BOOLEAN : EmailOpenBox(err, b, throws)
    \/ EmailWatchdog
    \/ \E throws \in BOOLEAN : EmailMessage(throws)
    \/ \E parsed \in ParsedMails, throws \in BOOLEAN : ParserThen(parsed, throws)
    \/ ParserCatch
    \/ \E throws \in BOOLEAN : EmailFetchError(throws)
    \/ \E throws \in BOOLEAN : EmailFetchEnd(throws)
    \/ SeqFetchEError
    \/ SeqFetchEEnd
    \/ SeqFetchDEnd
    \/ SeqFetchDError

(* ------------------------------------------------------------------ *)
(* Outbound Dispatcher, Forward: POST /api/forward-email               *)
(* ------------------------------------------------------------------ *)
\* The handler awaits one promise around openBox and the fetch of the
\* original.  The first resolve() / reject() settles it; the continuation
\* (compose and sendMail, or the catch block) runs before any other event.

\* resolve(): the rest of the try block composes the mail from
\* originalEmail and awaits transporter.sendMail.  f is the closure state
\* the calling handler leaves behind.
resolve(f) ==
    IF fwd.promise = "pending"
       THEN /\ fwd' = [f EXCEPT !.promise = "resolved", !.composedFrom = f.originalEmail]
            /\ ops' = Append(ops, Op("sendMail", imap, 0))
            /\ pc' = "sendMail"
            /\ UNCHANGED responses
       ELSE /\ fwd' = f
            /\ UNCHANGED <<ops, pc, responses>>

\* reject(err): the catch block answers 500
reject(f) ==
    IF fwd.promise = "pending"
       THEN /\ fwd' = [f EXCEPT !.promise = "rejected"]
            /\ responses' = Append(responses, ErrorResp(500, "DispatchFailure"))
            /\ pc' = "done"
            /\ UNCHANGED ops
       ELSE /\ fwd' = f
            /\ UNCHANGED <<ops, pc, responses>>

ForwardRequest(s, id, throws) ==
    /\ Enter("forward", s, id)
    /\ IF ~ValidSession(s)
          THEN Reject401
          ELSE /\ imap' = Lookup(s)
               /\ ops' = <<Op("openBox", Lookup(s), 0)>>
               /\ IF throws
                     THEN /\ responses' = <<ErrorResp(500, "DispatchFailure")>>
                          /\ pc' = "done"
                          /\ fwd' = [fwd EXCEPT !.promise = "rejected"]
                     ELSE /\ responses' = <<>>
                          /\ pc' = "openBox"
                          /\ fwd' = [fwd EXCEPT !.promise = "pending"]
               /\ UNCHANGED <<box, timeout, hasResponded, fetchCompleted, fetchStarted,
                              emails, lst, uidFetch, parser, seqFetchE, seqFetchD>>
    /\ UNCHANGED <<registryVars, crashed, pureVars>>

\* the openBox callback: reject(err), or the fetch of the original is issued
FwdOpenBox(err, b) ==
    /\ Running
    /\ ep = "forward" /\ pc = "openBox"
    /\ IF err
          THEN /\ reject(fwd)
               /\ UNCHANGED box
          ELSE /\ box' = b
               /\ ops' = Append(ops, Op("fetch", imap, mid))
               /\ fwd' = [fwd EXCEPT !.issued = TRUE]
               /\ pc' = "fetching"
               /\ UNCHANGED responses
    /\ UNCHANGED <<registryVars, crashed, ep, sid, mid, imap, regAtEntry, timeout,
                   hasResponded, fetchCompleted, fetchStarted, emails, lst, uidFetch,
                   parser, seqFetchE, seqFetchD, pureVars>>

\* fetch 'message' and its 'body': simpleParser(stream, callback) is started
FwdMessage ==
    /\ Running
    /\ ep = "forward"
    /\ fwd.issued /\ ~fwd.message /\ ~fwd.error /\ ~fwd.end
    /\ HasUid(box, mid)
    /\ fwd' = [fwd EXCEPT !.message = TRUE, !.parser = "pending"]
    /\ UNCHANGED <<registryVars, crashed, ep, pc, sid, mid, imap, regAtEntry, responses,
                   ops, box, timeout, hasResponded, fetchCompleted, fetchStarted, emails,
                   lst, uidFetch, parser, seqFetchE, seqFetchD, pureVars>>

\* the simpleParser callback
FwdParsed(err) ==
    /\ Running
    /\ ep = "forward"
    /\ fwd.parser = "pending"
    /\ IF err
          THEN reject([fwd EXCEPT !.parser = "failed"])
          ELSE resolve([fwd EXCEPT !.parser = "done", !.originalEmail = "parsed"])
    /\ UNCHANGED <<registryVars, crashed, ep, sid, mid, imap, regAtEntry, box, timeout,
                   hasResponded, fetchCompleted, fetchStarted, emails, lst, uidFetch,
                   parser, seqFetchE, seqFetchD, pureVars>>

\* fetch.once('error')
FwdFetchError ==
    /\ Running
    /\ ep = "forward"
    /\ fwd.issued /\ ~fwd.error
    /\ reject([fwd EXCEPT !.error = TRUE])
    /\ UNCHANGED <<registryVars, crashed, ep, sid, mid, imap, regAtEntry, box, timeout,
                   hasResponded, fetchCompleted, fetchStarted, emails, lst, uidFetch,
                   parser, seqFetchE, seqFetchD, pureVars>>

\* fetch.once('end'): the placeholder original when none was parsed yet
FwdFetchEnd ==
    /\ Running
    /\ ep = "forward"
    /\ fwd.issued /\ ~fwd.end
    /\ resolve([fwd EXCEPT !.end = TRUE,
                            !.originalEmail = IF @ = "undefined" THEN "placeholder" ELSE @])
    /\ UNCHANGED <<registryVars, crashed, ep, sid, mid, imap, regAtEntry, box, timeout,
                   hasResponded, fetchCompleted, fetchStarted, emails, lst, uidFetch,
                   parser, seqFetchE, seqFetchD, pureVars>>

\* await transporter.sendMail(mailOptions) settles
FwdSendMailSettled(ok) ==
    /\ Running
    /\ ep = "forward" /\ pc = "sendMail"
    /\ responses' = Append(responses,
                       IF ok THEN Resp(200, TRUE, FALSE, "sent", <<fwd.composedFrom>>)
                       ELSE ErrorResp(500, "DispatchFailure"))
    /\ pc' = "done"
    /\ UNCHANGED <<registryVars, crashed, ep, sid, mid, imap, regAtEntry, ops,
                   closureVars, pureVars>>

ForwardPipeline ==
    \/ \E err \in BOOLEAN, b \in SmallBoxes : FwdOpenBox(err, b)
    \/ FwdMessage
    \/ \E err \in BOOLEAN : FwdParsed(err)
    \/ FwdFetchError
    \/ FwdFetchEnd
    \/ \E ok \in BOOLEAN : FwdSendMailSettled(ok)

(* ------------------------------------------------------------------ *)
(* Subject of a forwarded mail                                         *)
(* ------------------------------------------------------------------ *)
\* String.prototype.startsWith
startsWith(str, prefix) ==
    Len(prefix) <= Len(str) /\ SubSeq(str, 1, Len(prefix)) = prefix

FwdColon == <<"F", "w", "d", ":">>
FwdPrefix == <<"F", "w", "d", ":", " ">>
KeinBetreff == <<"K", "e", "i", "n", " ", "B", "e", "t", "r", "e", "f", "f">>

\* originalEmail.subject?.startsWith('Fwd:') ? originalEmail.subject
\*     : `Fwd: ${originalEmail.subject || 'Kein Betreff'}`
\* (an undefined subject and the empty subject take the same path and are
\* both the empty sequence)
forwardSubjectAlways(subj) ==
    FwdPrefix \o (IF subj = <<>> THEN KeinBetreff ELSE subj)
forwardSubject(subj) ==
    IF startsWith(subj, FwdColon) THEN subj
    ELSE FwdPrefix \o (IF subj = <<>> THEN KeinBetreff ELSE subj)

\* the pieces subjects are assembled from
SubjectParts ==
    { <<"F", "w", "d", ":">>, <<"F", "w", "d", ":", " ">>, <<"f", "w", "d", ":">>,
      <<"F", "w", "d">>, <<"F">>, <<"w", "d", ":">>, <<"R", "e", ":", " ">>,
      <<" ">>, <<"x">> }

RECURSIVE SubjectsOfLen(_)
SubjectsOfLen(n) ==
    IF n = 0 THEN {<<>>}
    ELSE {p \o r : p \in SubjectParts, r \in SubjectsOfLen(n - 1)}

Subjects == UNION {SubjectsOfLen(n) : n \in 0..MaxSubjectParts}

\* the original of a forward was obtained
SubjectReceive(subj) ==
    /\ subject = <<>>
    /\ subject' = <<subj>>
    /\ fwdSubject' = <<>>
    /\ UNCHANGED <<registryVars, crashed, ep, pc, sid, mid, imap, regAtEntry, responses,
                   ops, closureVars, transportVars, configVars, clientVars, sanVars, structVars, folderVars>>

\* const subject = ...
SubjectForward ==
    /\ subject # <<>> /\ fwdSubject = <<>>
    /\ fwdSubject' = <<forwardSubject(subject[1])>>
    /\ UNCHANGED <<registryVars, crashed, ep, pc, sid, mid, imap, regAtEntry, responses,
                   ops, closureVars, transportVars, configVars, clientVars, sanVars, structVars, folderVars, subject>>

\* the forwarded mail is forwarded again: its subject is the next original
SubjectForwardAgain ==
    /\ fwdSubject # <<>>
    /\ subject' = fwdSubject
    /\ fwdSubject' = <<forwardSubject(fwdSubject[1])>>
    /\ UNCHANGED <<registryVars, crashed, ep, pc, sid, mid, imap, regAtEntry, responses,
                   ops, closureVars, transportVars, configVars, clientVars, sanVars, structVars, folderVars>>

NextSubject ==
    \/ \E subj \in Subjects : SubjectReceive(subj)
    \/ SubjectForward
    \/ SubjectForwardAgain

SpecSubject == Init /\ [][NextSubject]_vars

(* ------------------------------------------------------------------ *)
(* Outbound Dispatcher: the transient submission client                *)
(* ------------------------------------------------------------------ *)
\* A host name is the sequence of its pieces; "imap." is one piece.
ImapHosts == {<<"imap.", "web.de">>, <<"imap.", "gmx.net">>, <<"mail.", "corp.de">>,
              <<"my", "imap.", "corp.de">>}

\* imap._config of the handle: what connect was called with
ImapConfigs == {[user |-> u, password |-> "password-" \o u, host |-> h] :
                u \in {"a@web.de", "b@corp.de"}, h \in ImapHosts}

\* email.smtpConfig of a send request; an absent field, like an absent
\* smtpConfig, is falsy: the empty host, port 0, secure false
SmtpConfigs == {[host |-> h, port |-> p, secure |-> s] :
                h \in {<<>>, <<"smtp.", "relay.net">>}, p \in {0, 465}, s \in BOOLEAN}

\* host.replace('imap.', 'smtp.'): the first occurrence is replaced
RECURSIVE replace(_)
replace(host) ==
    IF host = <<>> THEN <<>>
    ELSE IF Head(host) = "imap." THEN <<"smtp.">> \o Tail(host)
    ELSE <<Head(host)>> \o replace(Tail(host))

\* nodemailer.createTransport({...}) of POST /api/send-email
sendTransporter(cfg, smtpConfig) ==
    [host |-> IF smtpConfig.host # <<>> THEN smtpConfig.host ELSE replace(cfg.host),
     port |-> IF smtpConfig.port # 0 THEN smtpConfig.port ELSE 587,
     secure |-> smtpConfig.secure,
     user |-> cfg.user,
     pass |-> cfg.password]

\* nodemailer.createTransport({...}) of POST /api/forward-email
forwardTransporter(cfg) ==
    [host |-> replace(cfg.host),
     port |-> 587,
     secure |-> FALSE,
     user |-> cfg.user,
     pass |-> cfg.password]

\* a session's handle and the smtpConfig its client sends with send-email
TransportReceive(cfg, smtpConfig) ==
    /\ Running
    /\ smtpIn = <<>>
    /\ smtpIn' = <<[config |-> cfg, smtpConfig |-> smtpConfig]>>
    /\ UNCHANGED <<registryVars, crashed, ep, pc, sid, mid, imap, regAtEntry, responses,
                   ops, closureVars, sanVars, structVars, subjectVars, folderVars,
                   configVars, clientVars, sendTransport, fwdTransport>>

\* the send handler up to createTransport
SendCreateTransport ==
    /\ Running
    /\ smtpIn # <<>> /\ sendTransport = <<>>
    /\ sendTransport' = <<sendTransporter(smtpIn[1].config, smtpIn[1].smtpConfig)>>
    /\ UNCHANGED <<registryVars, crashed, ep, pc, sid, mid, imap, regAtEntry, responses,
                   ops, closureVars, sanVars, structVars, subjectVars, folderVars,
                   configVars, clientVars, smtpIn, fwdTransport>>

\* the forward handler's continuation up to createTransport
ForwardCreateTransport ==
    /\ Running
    /\ smtpIn # <<>> /\ fwdTransport = <<>>
    /\ fwdTransport' = <<forwardTransporter(smtpIn[1].config)>>
    /\ UNCHANGED <<registryVars, crashed, ep, pc, sid, mid, imap, regAtEntry, responses,
                   ops, closureVars, sanVars, structVars, subjectVars, folderVars,
                   configVars, clientVars, smtpIn, sendTransport>>

NextTransport ==
    \/ \E cfg \in ImapConfigs, sc \in SmtpConfigs : TransportReceive(cfg, sc)
    \/ SendCreateTransport
    \/ ForwardCreateTransport

SpecTransport == Init /\ [][NextTransport]_vars

(* ------------------------------------------------------------------ *)
(* Configuration: GET /api/config                                      *)
(* ------------------------------------------------------------------ *)
\* the variables of process.env the handler reads
EnvNames == {"WEBDE_IMAP_SERVER", "WEBDE_IMAP_PORT", "WEBDE_SMTP_SERVER", "WEBDE_SMTP_PORT",
             "WEBDE_SECURE", "GMX_IMAP_SERVER", "GMX_IMAP_PORT", "GMX_SMTP_SERVER",
             "GMX_SMTP_PORT", "GMX_SECURE", "DEFAULT_IMAP_SERVER", "DEFAULT_IMAP_PORT",
             "DEFAULT_SMTP_SERVER", "DEFAULT_SMTP_PORT", "DEFAULT_SECURE", "OPENAI_API_KEY"}

\* a variable that is not set (undefined) or set to '' : both are falsy
Unset == <<>>

\* the values of OPENAI_API_KEY the process is started with
ApiKeys == {Unset, <<"s", "k", "-", "1">>, <<"s", "k", "-", "2">>}

\* the environments the process is started with: .env sets some of the
\* provider variables and the API key, the others stay unset
Envs ==
    {[n \in EnvNames |->
        CASE n = "WEBDE_IMAP_SERVER" -> host
          [] n = "WEBDE_IMAP_PORT" -> port
          [] n = "WEBDE_SECURE" -> secure
          [] n = "DEFAULT_IMAP_SERVER" -> custom
          [] n = "OPENAI_API_KEY" -> key
          [] OTHER -> Unset] :
        host \in {Unset, <<"imap.corp">>},
        port \in {Unset, <<"1", "4", "3">>, <<"x">>},
        secure \in {Unset, <<"f", "a", "l", "s", "e">>, <<"t", "r", "u", "e">>},
        custom \in {Unset, <<"mail.corp">>},
        key \in ApiKeys}

\* a || b on strings
Or(a, b) == IF a = Unset THEN b ELSE a

\* one entry of emailProviders
Provider(name, e, prefix, imapDefault, smtpDefault) ==
    [name |-> name,
     imapServer |-> Or(e[prefix \o "_IMAP_SERVER"], imapDefault),
     imapPort |-> parseInt(Or(e[prefix \o "_IMAP_PORT"], <<"9", "9", "3">>)),
     smtpServer |-> Or(e[prefix \o "_SMTP_SERVER"], smtpDefault),
     smtpPort |-> parseInt(Or(e[prefix \o "_SMTP_PORT"], <<"5", "8", "7">>)),
     secure |-> e[prefix \o "_SECURE"] # <<"f", "a", "l", "s", "e">>]

\* the object the handler passes to res.json
config(e) ==
    [emailProviders |->
        <<Provider("WEB.DE", e, "WEBDE", <<"imap.web.de">>, <<"smtp.web.de">>),
          Provider("GMX", e, "GMX", <<"imap.gmx.net">>, <<"smtp.gmx.net">>),
          Provider("Custom", e, "DEFAULT", <<>>, <<>>)>>,
     apiKeys |-> [openAiApiKey |-> Or(e["OPENAI_API_KEY"], <<>>)]]

\* dotenv.config() at start-up: process.env is fixed from then on
LoadEnv(e) ==
    /\ Running
    /\ env = <<>>
    /\ env' = <<e>>
    /\ UNCHANGED <<registryVars, crashed, ep, pc, sid, mid, imap, regAtEntry, responses,
                   ops, closureVars, transportVars, sanVars, structVars, subjectVars, folderVars,
                   configResp, clientVars>>

\* GET /api/config
ConfigRequest ==
    /\ Running
    /\ env # <<>>
    /\ configResp' = <<config(env[1])>>
    /\ UNCHANGED <<registryVars, crashed, ep, pc, sid, mid, imap, regAtEntry, responses,
                   ops, closureVars, transportVars, sanVars, structVars, subjectVars, folderVars,
                   env, clientVars>>

\* the configuration endpoint beside the session requests that put the
\* passwords into the process
NextConfig ==
    \/ \E e \in Envs : LoadEnv(e)
    \/ ConfigRequest
    \/ \E s \in SessionIds, ok \in BOOLEAN : Connect(s, ok)
    \/ \E s \in RequestSids : Logout(s)

SpecConfig == Init /\ [][NextConfig]_vars

(* ------------------------------------------------------------------ *)
(* Client: login of EmailContext                                       *)
(* ------------------------------------------------------------------ *)
\* the email argument of the n-th login
Email(n) == "user-" \o ToString(n)

\* const newAccount: EmailAccount = { email, password: '', ... }
newAccountKeeps(email, password) == [email |-> email, password |-> password]
newAccount(email, password) == [email |-> email, password |-> ""]

\* the continuation of login after the response of POST /api/connect has
\* arrived: a failure response throws before setAccount
LoginResponse ==
    /\ ctlReq.op = "connect"
    /\ ctlResp # <<>>
    /\ ctlResp[1].success
    /\ sessionId' = ctlReq.sessionId
    /\ account' = newAccount(Email(nextHandle - 1), Password(nextHandle - 1))
    /\ UNCHANGED <<emailCtxVars, registryVars, crashed, ep, pc, sid, mid, imap, regAtEntry, responses,
                   ops, closureVars, transportVars, sanVars, structVars, subjectVars, folderVars,
                   configVars>>

(* ------------------------------------------------------------------ *)
(* Client: EmailContext (src/src/context/EmailContext.tsx)             *)
(* ------------------------------------------------------------------ *)
\* everything outside the browser
serverVars == <<registryVars, crashed, ep, pc, sid, mid, imap, regAtEntry, responses, ops,
                closureVars, transportVars, sanVars, structVars, subjectVars, folderVars,
                configVars>>

\* the paths Express has a handler for; any other path is answered by the
\* default 404 page, which is HTML
Routes == {"/api/connect", "/api/folders", "/api/emails", "/api/email/:id",
           "/api/send-email", "/api/forward-email", "/api/logout", "/api/health",
           "/config", "/api/config"}

\* data.emails of a successful listing
ServerList == [i \in 1..MaxId |-> i]

\* what the folders and emails routes answer for session id s: 401 with
\* success:false when s is not registered, otherwise the outcome of the
\* IMAP command
sessionAnswers(s) ==
    IF MapHas(activeConnections, s)
       THEN {Answer(TRUE, 200, TRUE, ServerList), Answer(TRUE, 500, FALSE, <<>>)}
       ELSE {Answer(TRUE, 401, FALSE, <<>>)}

routeAnswers(path, s) ==
    IF path \in Routes THEN sessionAnswers(s) ELSE {Answer(FALSE, 404, FALSE, <<>>)}

\* the statements in the try block of a fetch helper that throw: the
\* content-type check or response.json() on a body that is not JSON, and
\* the check of data.success
tryThrows(a) == ~a.json \/ ~a.success

\* whether the promise of fetchFolders / fetchEmails rejects: the catch
\* block of each logs and shows a toast, and does not rethrow
fetchFoldersRejects(a) == FALSE
fetchEmailsRejects(a) == FALSE

\* setX(v) schedules a re-render when v differs from the current state
Changes(old, new) == old # new

\* restoreSession(sid) up to the request of fetchFolders(sid)
RestoreSession(s) ==
    /\ restore.pc \in {"idle", "done"}
    /\ IF s = NoSession
          THEN /\ restore' = [NoRestore EXCEPT !.pc = "done"]
               /\ UNCHANGED <<sessionId, isLoading, dirty>>
          ELSE /\ restore' = [NoRestore EXCEPT !.pc = "folders", !.sid = s]
               /\ sessionId' = s
               /\ isLoading' = TRUE
               /\ dirty' = (dirty \/ Changes(isLoading, TRUE) \/ Changes(sessionId, s))
    /\ UNCHANGED <<account, clientEmails, selectedEmail, fetchingEmailId, render, inFlight,
                   fetches, waiters, del, serverVars>>

\* the answer of GET /api/folders arrives: fetchFolders settles and
\* restoreSession goes on to fetchEmails('INBOX', sid), or to its catch
FetchFoldersResponse(a) ==
    /\ restore.pc = "folders"
    /\ a \in routeAnswers("/api/folders", restore.sid)
    /\ IF fetchFoldersRejects(a)
          THEN /\ restore' = [restore EXCEPT !.pc = "done", !.folders = a, !.result = FALSE]
               /\ sessionId' = NoSession
               /\ isLoading' = FALSE
               /\ dirty' = TRUE
          ELSE /\ restore' = [restore EXCEPT !.pc = "emails", !.folders = a]
               /\ isLoading' = TRUE
               /\ UNCHANGED <<sessionId, dirty>>
    /\ UNCHANGED <<account, clientEmails, selectedEmail, fetchingEmailId, render, inFlight,
                   fetches, waiters, del, serverVars>>

\* the answer of GET /api/emails arrives: fetchEmails settles and its
\* caller, restoreSession or deleteEmail, runs to its end
FetchEmailsResponse(a) ==
    /\ restore.pc = "emails" \/ del.pc = "refresh"
    /\ a \in routeAnswers("/api/emails", IF restore.pc = "emails" THEN restore.sid ELSE sessionId)
    /\ clientEmails' = IF tryThrows(a) THEN clientEmails ELSE a.emails
    /\ isLoading' = FALSE
    /\ dirty' = TRUE
    /\ IF restore.pc = "emails"
          THEN /\ restore' = [restore EXCEPT !.pc = "done", !.emails = a,
                                             !.result = ~fetchEmailsRejects(a)]
               /\ sessionId' = IF fetchEmailsRejects(a) THEN NoSession ELSE sessionId
               /\ del' = del
          ELSE /\ del' = [del EXCEPT !.pc = "done"]
               /\ UNCHANGED <<restore, sessionId>>
    /\ UNCHANGED <<account, selectedEmail, fetchingEmailId, render, inFlight, fetches,
                   waiters, serverVars>>

InList(id) == \E i \in 1..Len(clientEmails) : clientEmails[i] = id

filter(list, id) == SelectSeq(list, LAMBDA e : e # id)

\* deleteEmail(id) up to the request POST /api/delete-email
DeleteEmail(id) ==
    /\ del.pc \in {"idle", "done"}
    /\ IF sessionId = NoSession \/ account = NoAccount
          THEN /\ del' = [NoDelete EXCEPT !.pc = "done", !.id = id, !.rejected = TRUE]
               /\ UNCHANGED <<isLoading, dirty>>
          ELSE /\ del' = [NoDelete EXCEPT !.pc = "sent", !.id = id, !.listed = InList(id)]
               /\ isLoading' = TRUE
               /\ dirty' = (dirty \/ Changes(isLoading, TRUE))
    /\ UNCHANGED <<account, sessionId, clientEmails, selectedEmail, fetchingEmailId, render,
                   inFlight, fetches, waiters, restore, serverVars>>

\* the answer of POST /api/delete-email arrives
DeleteResponse(a) ==
    /\ del.pc = "sent"
    /\ a \in routeAnswers("/api/delete-email", sessionId)
    /\ IF tryThrows(a)
          THEN /\ del' = [del EXCEPT !.pc = "done", !.answer = a, !.rejected = TRUE]
               /\ isLoading' = FALSE
               /\ UNCHANGED <<clientEmails, selectedEmail>>
          ELSE /\ del' = [del EXCEPT !.pc = "refresh", !.answer = a]
               /\ clientEmails' = filter(clientEmails, del.id)
               /\ selectedEmail' = IF selectedEmail = del.id THEN NoEmail ELSE selectedEmail
               /\ isLoading' = TRUE
    /\ dirty' = TRUE
    /\ UNCHANGED <<account, sessionId, fetchingEmailId, render, inFlight, fetches, waiters,
                   restore, serverVars>>

\* a fetchPromise, or a call awaiting one: the id and the render whose
\* fetchEmail function object carries the _inFlight map it is entered in
Flight(id, fn) == [id |-> id, fn |-> fn]

\* fetchEmail(id) of the current render up to its first await: the map is
\* read from, and created on, the function object of that render
FetchEmail(id) ==
    /\ sessionId # NoSession
    /\ Flight(id, render) \notin waiters
    /\ isLoading' = TRUE
    /\ fetchingEmailId' = id
    /\ dirty' = (dirty \/ Changes(isLoading, TRUE) \/ Changes(fetchingEmailId, id))
    /\ IF id \in inFlight[render]
          THEN /\ waiters' = waiters \cup {Flight(id, render)}
               /\ UNCHANGED <<fetches, inFlight>>
          ELSE /\ fetches' = fetches \cup {Flight(id, render)}
               /\ inFlight' = [inFlight EXCEPT ![render] = @ \cup {id}]
               /\ UNCHANGED waiters
    /\ UNCHANGED <<account, sessionId, clientEmails, selectedEmail, render, restore, del,
                   serverVars>>

\* a fetchPromise settles: the call that created it deletes the entry and,
\* on success, selects the message; the calls awaiting it return
FetchSettle(f, ok) ==
    /\ f \in fetches
    /\ fetches' = fetches \ {f}
    /\ inFlight' = [inFlight EXCEPT ![f.fn] = @ \ {f.id}]
    /\ waiters' = waiters \ {f}
    /\ selectedEmail' = IF ok THEN f.id ELSE selectedEmail
    /\ isLoading' = FALSE
    /\ fetchingEmailId' = NoEmail
    /\ dirty' = TRUE
    /\ UNCHANGED <<account, sessionId, clientEmails, render, restore, del, serverVars>>

\* React renders EmailProvider again: fetchEmail and the other closures
\* are new function objects
Render ==
    /\ dirty
    /\ render < MaxRenders
    /\ render' = render + 1
    /\ dirty' = FALSE
    /\ UNCHANGED <<account, sessionId, clientEmails, selectedEmail, isLoading,
                   fetchingEmailId, inFlight, fetches, waiters, restore, del, serverVars>>

\* restoring a saved session against the Session Registry of the server
NextRestore ==
    \/ \E s \in SessionIds, ok \in BOOLEAN : Connect(s, ok)
    \/ \E s \in RequestSids : Logout(s)
    \/ \E s \in RequestSids : RestoreSession(s)
    \/ \E a \in routeAnswers("/api/folders", restore.sid) : FetchFoldersResponse(a)
    \/ \E a \in sessionAnswers(restore.sid) : FetchEmailsResponse(a)

SpecRestore == Init /\ [][NextRestore]_vars

\* opening messages while the provider re-renders
NextFetch ==
    \/ \E s \in SessionIds, ok \in BOOLEAN : Connect(s, ok)
    \/ LoginResponse
    \/ \E id \in Ids : FetchEmail(id)
    \/ \E f \in fetches, ok \in BOOLEAN : FetchSettle(f, ok)
    \/ Render

SpecFetch == Init /\ [][NextFetch]_vars

\* deleting a message of the loaded list
NextDelete ==
    \/ \E s \in SessionIds, ok \in BOOLEAN : Connect(s, ok)
    \/ LoginResponse
    \/ \E s \in RequestSids : RestoreSession(s)
    \/ \E a \in routeAnswers("/api/folders", restore.sid) : FetchFoldersResponse(a)
    \/ \E a \in sessionAnswers(restore.sid) \cup sessionAnswers(sessionId) :
          FetchEmailsResponse(a)
    \/ \E id \in Ids : DeleteEmail(id)
    \/ \E a \in routeAnswers("/api/delete-email", sessionId) : DeleteResponse(a)

SpecDelete == Init /\ [][NextDelete]_vars

(* ------------------------------------------------------------------ *)
(* Specification                                                       *)
(* ------------------------------------------------------------------ *)
Next ==
    \/ \E s \in SessionIds, ok \in BOOLEAN : Connect(s, ok)
    \/ \E s \in RequestSids : Logout(s)
    \/ \E s \in RequestSids, throws \in BOOLEAN : FoldersRequest(s, throws)
    \/ \E err \in BOOLEAN, boxes \in BoxTrees : GetBoxesCallback(err, boxes)
    \/ \E s \in RequestSids, throws \in BOOLEAN : SendRequest(s, throws)
    \/ \E ok \in BOOLEAN : SendMailSettled(ok)
    \/ \E s \in RequestSids, throws \in BOOLEAN : EmailsRequest(s, throws)
    \/ \E err \in BOOLEAN, b \in SmallBoxes : ListOpenBox(err, b)
    \/ ListMessage
    \/ ListWatchdog
    \/ ListFetchError
    \/ ListFetchEnd
    \/ \E s \in RequestSids, id \in Ids, throws \in BOOLEAN : EmailRequest(s, id, throws)
    \/ EmailPipeline
    \/ \E s \in RequestSids, id \in Ids, throws \in BOOLEAN : ForwardRequest(s, id, throws)
    \/ ForwardPipeline
    \/ Finish

Spec == Init /\ [][Next]_vars

\* the listing pipeline on mailboxes up to MaxTotal messages
NextList ==
    \/ \E s \in SessionIds, ok \in BOOLEAN : Connect(s, ok)
    \/ \E s \in RequestSids, throws \in BOOLEAN : EmailsRequest(s, throws)
    \/ \E err \in BOOLEAN, b \in Boxes : ListOpenBox(err, b)
    \/ ListMessage
    \/ ListWatchdog
    \/ ListFetchError
    \/ ListFetchEnd
    \/ Finish

SpecList == Init /\ [][NextList]_vars

\* the life cycle of sessions and of the process, with the folder requests
\* that read the registry
NextReg ==
    \/ \E s \in SessionIds, ok \in BOOLEAN : Connect(s, ok)
    \/ \E s \in RequestSids : Logout(s)
    \/ Sigint
    \/ ServerClosed
    \/ \E s \in RequestSids, throws \in BOOLEAN : FoldersRequest(s, throws)
    \/ \E err \in BOOLEAN, bs \in BoxTrees : GetBoxesCallback(err, bs)
    \/ Finish
    \/ LoginResponse

SpecReg == Init /\ [][NextReg]_vars

\* the listing and single-message pipelines with their watchdogs: a timer
\* that setTimeout armed fires unless clearTimeout cancels it, while the
\* remote server is free never to raise another event
NextLive ==
    \/ \E s \in SessionIds, ok \in BOOLEAN : Connect(s, ok)
    \/ \E s \in RequestSids, throws \in BOOLEAN : EmailsRequest(s, throws)
    \/ \E err \in BOOLEAN, b \in SmallBoxes : ListOpenBox(err, b)
    \/ ListMessage
    \/ ListWatchdog
    \/ ListFetchError
    \/ ListFetchEnd
    \/ \E s \in RequestSids, id \in Ids, throws \in BOOLEAN : EmailRequest(s, id, throws)
    \/ EmailPipeline
    \/ Finish

SpecLive == Init /\ [][NextLive]_vars /\ WF_vars(ListWatchdog) /\ WF_vars(EmailWatchdog)

\* one folder with one message, and one parsed message, for the runs that
\* interleave every handler with the termination handler
FrameBoxes == {b \in SmallBoxes : b.total = 1 /\ b.uidBase = 0 /\ b.badStructAt = 0}
FrameMails == {m \in ParsedMails : m.html = <<>> /\ m.textAsHtml = <<>> /\ m.text = <<>>}

\* every request handler, callback and timer of the server together with
\* the termination handler
NextAll ==
    \/ \E s \in SessionIds, ok \in BOOLEAN : Connect(s, ok)
    \/ \E s \in RequestSids : Logout(s)
    \/ Sigint
    \/ ServerClosed
    \/ \E s \in RequestSids : FoldersRequest(s, FALSE)
    \/ \E err \in BOOLEAN : GetBoxesCallback(err, <<>>)
    \/ \E s \in RequestSids : SendRequest(s, FALSE)
    \/ \E ok \in BOOLEAN : SendMailSettled(ok)
    \/ \E s \in RequestSids : EmailsRequest(s, FALSE)
    \/ \E err \in BOOLEAN, b \in FrameBoxes : ListOpenBox(err, b)
    \/ ListMessage
    \/ ListWatchdog
    \/ ListFetchError
    \/ ListFetchEnd
    \/ \E s \in RequestSids : EmailRequest(s, 1, FALSE)
    \/ \E err \in BOOLEAN, b \in FrameBoxes : EmailOpenBox(err, b, FALSE)
    \/ EmailWatchdog
    \/ EmailMessage(FALSE)
    \/ \E parsed \in FrameMails : ParserThen(parsed, FALSE)
    \/ ParserCatch
    \/ EmailFetchError(FALSE)
    \/ EmailFetchEnd(FALSE)
    \/ SeqFetchEError
    \/ SeqFetchEEnd
    \/ SeqFetchDEnd
    \/ SeqFetchDError
    \/ \E s \in RequestSids : ForwardRequest(s, 1, FALSE)
    \/ \E err \in BOOLEAN, b \in FrameBoxes : FwdOpenBox(err, b)
    \/ FwdMessage
    \/ \E err \in BOOLEAN : FwdParsed(err)
    \/ FwdFetchError
    \/ FwdFetchEnd
    \/ \E ok \in BOOLEAN : FwdSendMailSettled(ok)
    \/ Finish

SpecAll == Init /\ [][NextAll]_vars

(* ------------------------------------------------------------------ *)
(* Properties                                                          *)
(* ------------------------------------------------------------------ *)
SessionEndpoints == {"folders", "emails", "email", "send", "forward"}

\* the request's sessionId was absent or not a key of the registry on entry
InvalidAtEntry == sid = NoSession \/ ~MapHas(regAtEntry, sid)

SeqFetchOps == {i \in 1..Len(ops) : ops[i].op = "seq.fetch"}

\* no response of the request came from a catch block around a library call
\* that raised synchronously
NoSyncException == \A i \in 1..Len(responses) : responses[i].kind # "Exception"

C1_RejectedState ==
    (pc # "idle" /\ ep \in SessionEndpoints /\ InvalidAtEntry)
        => (responses = <<InvalidSession>> /\ ops = <<>>)

C1_RejectStep ==
    (pc = "idle" /\ pc' # "idle" /\ (sid' = NoSession \/ ~MapHas(activeConnections, sid')))
        => (activeConnections' = activeConnections /\ endCalls' = endCalls
            /\ nextHandle' = nextHandle)

\* C1: on each of the five session-bearing endpoints a request whose
\* sessionId is absent or unregistered is answered with the single response
\* 401 success:false, issues no mailbox or submission operation for as long
\* as it lives, and the step that rejects it leaves the registry unchanged.
C1_InvalidSessionRejected == [](C1_RejectedState) /\ [][C1_RejectStep]_vars

\* a request on email/:id with an id that is not registered, while another
\* session is, has been answered 401
C1_Witness ==
    /\ ep = "email" /\ pc = "done"
    /\ sid \in SessionIds /\ ~MapHas(regAtEntry, sid)
    /\ MapKeys(regAtEntry) # {}
    /\ responses = <<InvalidSession>>

\* C2: a single-message request that reached the fetch stage never has more
\* than one response sent on it, and has exactly one once its watchdog has
\* fired or has been cleared (stated for the runs in which no library call
\* raised synchronously).
C2_ExactlyOneEmailResponse ==
    (ep = "email" /\ pc = "fetching" /\ NoSyncException)
        => /\ Len(responses) <= 1
           /\ (timeout # "armed" => Len(responses) = 1)

\* C3: a listing request that reached the fetch stage never has more than
\* one response sent on it, and has exactly one as soon as the watchdog, the
\* fetch 'error' or the fetch 'end' has occurred, whatever follows.
C3_ExactlyOneListResponse ==
    (ep = "emails" /\ pc = "fetching")
        => /\ Len(responses) <= 1
           /\ ((timeout = "fired" \/ lst.error \/ lst.end) <=> Len(responses) = 1)
           /\ (hasResponded <=> Len(responses) = 1)

\* the watchdog fired first, the fetch's 'error' and 'end' followed
C3_Witness ==
    /\ ep = "emails" /\ pc = "fetching"
    /\ timeout = "fired" /\ lst.error /\ lst.end
    /\ Len(responses) = 1

\* C4: when the UID fetch completed or failed without a message, a message
\* exists at sequence number id and the sequence fallback ran to its end
\* without error or timeout, the request is answered with success carrying
\* that message and no partial flag.
C4_SeqFallbackFinds ==
    (/\ ep = "email" /\ pc = "fetching"
     /\ ~uidFetch.message /\ (uidFetch.end \/ uidFetch.error)
     /\ HasSeq(box, mid)
     /\ (seqFetchE.end \/ seqFetchD.end)
     /\ ~seqFetchE.error /\ ~seqFetchD.error
     /\ timeout # "fired")
        => /\ Len(responses) >= 1
           /\ responses[1].status = 200
           /\ responses[1].success /\ ~responses[1].partial
           /\ responses[1].kind = "email"
           /\ responses[1].body[1].uid = UidAt(box, mid)

\* C5: a request on which the UID fetch delivered a message and raised no
\* error (whether or not the message was parsed when the fetch's 'end'
\* arrived) is never answered 404: a 404 means the UID fetch delivered none.
C5_NotFoundOnlyIfUndelivered ==
    (ep = "email" /\ ~uidFetch.error)
        => \A i \in 1..Len(responses) : responses[i].status = 404 => ~uidFetch.message

\* C6: when the listing watchdog fires with k summaries accumulated, the
\* response it sends is success:true, partial:true with exactly those k
\* summaries if k > 0, and a success:false timeout error if k = 0.
C6_WatchdogPartial ==
    [][(ep = "emails" /\ timeout = "armed" /\ timeout' = "fired")
         => /\ ~lst.end
            /\ Len(responses) = 0 /\ Len(responses') = 1
            /\ IF Len(emails) > 0
                  THEN /\ responses'[1].status = 200
                       /\ responses'[1].success /\ responses'[1].partial
                       /\ responses'[1].body = emails
                  ELSE /\ ~responses'[1].success
                       /\ responses'[1].kind = "FetchTimeout"]_vars

\* the watchdog fired with 12 summaries accumulated
C6_Witness ==
    /\ ep = "emails" /\ timeout = "fired" /\ ~lst.end
    /\ Len(responses) = 1
    /\ responses[1].success /\ responses[1].partial
    /\ Len(responses[1].body) = 12

\* C7: for total >= 1 exactly one fetch is issued, over the sequence range
\* [total - count + 1, total] with count = min(30, total), whose start is
\* >= 1; for total = 0 the empty success list is the response and neither a
\* fetch nor a watchdog was started.
C7_ListingRange ==
    ep = "emails"
        => /\ pc = "fetching" =>
                LET total == box.total
                    count == IF total < ListLimit THEN total ELSE ListLimit
                IN  /\ total >= 1
                    /\ Cardinality(SeqFetchOps) = 1
                    /\ \A i \in SeqFetchOps :
                          /\ ops[i].arg = <<total - count + 1, total>>
                          /\ ops[i].arg[1] >= 1
                          /\ ops[i].arg[2] - ops[i].arg[1] + 1 = count
           /\ (box.selected /\ box.total = 0) =>
                /\ pc = "done"
                /\ responses = <<Resp(200, TRUE, FALSE, "emails", <<>>)>>
                /\ SeqFetchOps = {}
                /\ timeout = "none"

\* a folder of 45 messages is listed over 16..45
C7_Witness ==
    /\ ep = "emails" /\ pc = "fetching"
    /\ box.total = 45
    /\ Len(ops) = 2 /\ ops[2].op = "seq.fetch" /\ ops[2].arg = <<16, 45>>

\* C8: once the parser has rejected (the watchdog has not fired, the UID
\* fetch raised no error and no library call raised synchronously), a
\* response has been sent and every response sent is success:true with the
\* placeholder message and partial:true; none is a 404 or a 500.
C8_ParseFailureDegrades ==
    (/\ ep = "email" /\ parser = "rejected"
     /\ timeout # "fired" /\ ~uidFetch.error /\ NoSyncException)
        => /\ Len(responses) >= 1
           /\ \A i \in 1..Len(responses) :
                 /\ responses[i].status = 200
                 /\ responses[i].success /\ responses[i].partial
                 /\ responses[i].kind = "email"
                 /\ responses[i].body[1].placeholder

\* C9: when the re-fetch of the original raised an error or ended without
\* delivering a message, the placeholder original was substituted and the
\* mail composed from it was handed to sendMail.
C9_ForwardNeverHardFails ==
    (ep = "forward" /\ fwd.issued /\ ~fwd.message /\ (fwd.error \/ fwd.end))
        => /\ fwd.composedFrom = "placeholder"
           /\ "sendMail" \in OpNames(ops)

\* C10: the sanitised form of a body that contains a script block or an
\* on*= attribute contains neither a script block nor an on*= attribute.
C10_SanitizedClean ==
    (sanitizedHtml # <<>> /\ (hasScript(html) \/ hasHandler(html)))
        => (~hasScript(sanitizedHtml[1]) /\ ~hasHandler(sanitizedHtml[1]))

\* a step of POST /api/connect: a handle was created
ConnectStep == nextHandle' = nextHandle + 1

\* a step of POST /api/logout: it touches the registry, the end() counts and
\* the record of the last request, and nothing else
LogoutStep ==
    /\ ctlReq'.op = "logout"
    /\ UNCHANGED <<nextHandle, imapConfig, procVars, crashed, ep, pc, sid, mid, imap, regAtEntry,
                   responses, ops, closureVars, pureVars>>

\* a step of the SIGINT handler
SigintStep == sigints' = sigints + 1

\* C11: over every sequence of connects, logouts and termination signals,
\* repeated signals before the exit included, end() has been called at most
\* once on each connection handle (stated for the runs whose last session
\* request was not a logout).
C11_EndAtMostOnce == ctlReq.op # "logout" => \A h \in Handles : endCalls[h] <= 1

\* C12: the step of the SIGINT handler calls end() on every handle that is
\* in the registry at that moment and does not terminate the process; the
\* process terminates only after a signal was handled.
C12_SigintEndsAll ==
    [][/\ SigintStep =>
            /\ \A s \in MapKeys(activeConnections) :
                  endCalls'[activeConnections[s]] = endCalls[activeConnections[s]] + 1
            /\ ~exited'
       /\ (exited' /\ ~exited) => sigints >= 1]_vars

\* the process exited after one signal that found two sessions registered,
\* each handle ended
C12_Witness ==
    /\ exited /\ sigints = 1
    /\ Cardinality(MapKeys(activeConnections)) = 2
    /\ \A s \in MapKeys(activeConnections) : endCalls[activeConnections[s]] = 1

\* C13: a successful connect registers an id that was not in the registry,
\* and every session registered before it keeps its handle.
C13_ConnectNeverReplaces ==
    [][(ConnectStep /\ ctlReq'.sessionId # NoSession) =>
            /\ ~MapHas(activeConnections, ctlReq'.sessionId)
            /\ \A s \in MapKeys(activeConnections) :
                  activeConnections'[s] = activeConnections[s]]_vars

\* C14: a logout of a registered id calls end() once on that session's
\* handle and removes the id, leaving the other sessions alone; a logout of
\* an absent or unknown id leaves the registry and the end() counts
\* unchanged; both answer success:true; and a pipeline request that enters
\* with the id just logged out is answered 401 and issues no operation.
C14_LogoutRemoves ==
    [][/\ LogoutStep =>
            LET s == ctlReq'.sessionId
            IN  /\ ctlResp' = <<Resp(200, TRUE, FALSE, "logout", <<>>)>>
                /\ IF s # NoSession /\ MapHas(activeConnections, s)
                      THEN /\ ~MapHas(activeConnections', s)
                           /\ endCalls' = [endCalls EXCEPT ![activeConnections[s]] = @ + 1]
                           /\ \A t \in SessionIds \ {s} :
                                 activeConnections'[t] = activeConnections[t]
                      ELSE /\ activeConnections' = activeConnections
                           /\ endCalls' = endCalls
       /\ (pc = "idle" /\ pc' # "idle" /\ ctlReq.op = "logout"
           /\ sid' = ctlReq.sessionId /\ ep' \in SessionEndpoints)
            => (responses' = <<InvalidSession>> /\ ops' = <<>>)]_vars

\* a session was logged out while another stayed registered, and the next
\* single-message request with the logged-out id was answered 401
C14_Witness ==
    /\ ctlReq.op = "logout" /\ ctlReq.sessionId \in SessionIds
    /\ MapHas(regAtEntry, ctlReq.sessionId) = FALSE
    /\ \E h \in Handles : endCalls[h] = 1
    /\ MapKeys(activeConnections) # {}
    /\ ep = "email" /\ sid = ctlReq.sessionId
    /\ responses = <<InvalidSession>>

\* C15: a connect request whose connection failed before 'ready' is
\* answered success:false without a sessionId and leaves the registry as it
\* was; a session id is in the registry only with a handle that was created.
C15_RegisteredOnlyWhenReady ==
    [][ConnectStep =>
          IF ctlReq'.sessionId = NoSession
             THEN /\ ctlResp' = <<ErrorResp(500, "ConnectionFailure")>>
                  /\ ctlResp'[1].body = <<>>
                  /\ activeConnections' = activeConnections
             ELSE /\ ctlResp' = <<Resp(200, TRUE, FALSE, "connect", <<ctlReq'.sessionId>>)>>
                  /\ activeConnections'[ctlReq'.sessionId] = nextHandle]_vars

\* a connect failed while one session was registered: the registry still
\* holds exactly that session
C15_Witness ==
    /\ ctlReq = [op |-> "connect", sessionId |-> NoSession]
    /\ ctlResp = <<ErrorResp(500, "ConnectionFailure")>>
    /\ nextHandle = 3
    /\ Cardinality(MapKeys(activeConnections)) = 1

\* the parts of a structure tree, at every depth
RECURSIVE PartsOf(_)
PartsOf(st) ==
    (IF st.isArray THEN {} ELSE {st})
        \cup UNION {PartsOf(st.parts[i]) : i \in 1..Len(st.parts)}

\* a part that counts as an attachment
CountsAsAttachment(n) ==
    \/ n.disposition \in {"attachment", "Attachment", "ATTACHMENT",
                          "inline", "Inline", "INLINE"}
    \/ n.name # ""

CompletedListings ==
    {i \in 1..Len(responses) :
        /\ ep = "emails" /\ lst.end
        /\ responses[i].kind = "emails" /\ responses[i].success /\ ~responses[i].partial}

\* C16: in the list returned on normal completion, two summaries whose Date
\* headers both parsed are in non-increasing order of date, and a summary
\* whose Date header did not parse is ordered against the others by
\* descending numeric id.
C16_SortedByDateThenId ==
    \A r \in CompletedListings :
        LET l == responses[r].body
        IN  \A i, j \in 1..Len(l) :
               i < j =>
                  IF /\ ~isNaN(HeaderDate(box, l[i].seqno))
                     /\ ~isNaN(HeaderDate(box, l[j].seqno))
                     THEN l[i].date >= l[j].date
                     ELSE parseInt(l[i].id) >= parseInt(l[j].id)

\* C20: in every listing response a summary whose attributes carried a UID
\* has id = uid = that UID, and a summary whose attributes carried none has
\* uid = null and id = its sequence number.
C20_IdIsUidOrSeqno ==
    ep = "emails" =>
        \A r \in 1..Len(responses) : \A i \in 1..Len(responses[r].body) :
            LET e == responses[r].body[i]
            IN  IF AttrsUid(box, e.seqno) # 0
                   THEN /\ e.uid = toString(UidAt(box, e.seqno))
                        /\ e.id = e.uid
                        /\ parseInt(e.id) = UidAt(box, e.seqno)
                   ELSE /\ e.uid = null
                        /\ e.id = toString(e.seqno)
                        /\ parseInt(e.id) = e.seqno

\* a partial listing holding a summary without UID (id "1") and a summary
\* with UID 31 at sequence number 30
C20_Witness ==
    /\ ep = "emails" /\ Len(responses) = 1
    /\ responses[1].partial
    /\ \E i, j \in 1..Len(responses[1].body) :
          /\ responses[1].body[i].uid = null
          /\ responses[1].body[i].id = <<"1">>
          /\ responses[1].body[j].uid = <<"3", "1">>
          /\ responses[1].body[j].id = <<"3", "1">>
          /\ responses[1].body[j].seqno = 30

\* C18: a subject that starts with "Fwd:" is forwarded unchanged, every
\* other subject gets the prefix "Fwd: " once, and forwarding the result
\* again changes nothing: no subject that did not start with "Fwd: Fwd:"
\* comes to start with it.
C18_ForwardSubjectIdempotent ==
    (subject # <<>> /\ fwdSubject # <<>>) =>
        LET subj == subject[1]
            out == fwdSubject[1]
        IN  /\ startsWith(subj, FwdColon) => out = subj
            /\ ~startsWith(subj, FwdColon) =>
                  /\ startsWith(out, FwdPrefix)
                  /\ SubSeq(out, Len(FwdPrefix) + 1, Len(out))
                        = (IF subj = <<>> THEN KeinBetreff ELSE subj)
            /\ forwardSubject(out) = out
            /\ ~startsWith(subj, FwdPrefix \o FwdColon)
                  => ~startsWith(out, FwdPrefix \o FwdColon)

\* "Re: x" was forwarded twice and is "Fwd: Re: x"
C18_Witness ==
    /\ subject = <<FwdPrefix \o <<"R", "e", ":", " ", "x">>>>
    /\ fwdSubject = subject

\* the paths of a folder forest: each folder's ancestors' names and its own
\* name, joined by the delimiter the server reports for the parent
RECURSIVE ServerPaths(_, _)
ServerPaths(forest, prefix) ==
    IF forest = <<>> THEN <<>>
    ELSE LET b == Head(forest)
             p == prefix \o <<b.name>>
         IN  <<p>> \o ServerPaths(b.children, p \o <<b.delimiter>>)
                   \o ServerPaths(Tail(forest), prefix)

\* C19: the folder list has exactly one entry per folder of the server's
\* tree, at every depth, and the path and the id of each entry are the
\* names of its ancestors and its own name joined by the server's
\* hierarchy delimiter.
C19_FolderPaths ==
    (boxTree # <<>> /\ folders # <<>>) =>
        LET expected == ServerPaths(boxTree[1], <<>>)
            out == folders[1]
        IN  /\ Len(out) = Len(expected)
            /\ \A i \in 1..Len(out) :
                  /\ out[i].path = expected[i]
                  /\ out[i].id = expected[i]
                  /\ out[i].name = expected[i][Len(expected[i])]

\* the sequence numbers whose summary, in a listing of mailbox b, has the
\* numeric id n
ListedAs(b, n) ==
    {q \in start(b.total)..b.total : b.total >= 1 /\ parseInt(summaryId(b, q)) = n}

\* the single-message request is over: it was answered and no event of the
\* remote server or of the parser is outstanding
EmailSettled ==
    /\ ep = "email" /\ pc = "fetching"
    /\ Len(responses) >= 1
    /\ uidFetch.end
    /\ parser \notin {"pending"}
    /\ seqFetchE.issued => seqFetchE.end
    /\ seqFetchD.issued => seqFetchD.end

\* the remote server, the parser and the timer raised no failure, and the
\* UID fetch delivered the message with UID id when the mailbox has one
NoFailureEvent ==
    /\ NoSyncException
    /\ HasUid(box, mid) => uidFetch.message
    /\ ~uidFetch.error /\ ~seqFetchE.error /\ ~seqFetchD.error
    /\ parser \notin {"rejected", "threw"}
    /\ timeout # "fired"

\* C21: a single-message request whose id is the id of a summary that a
\* listing of the same, unchanged mailbox returns is answered, when no event
\* fails, with success and the message that summary described (stated for
\* the summaries whose attributes carried a UID).
C21_ListedIdResolves ==
    (EmailSettled /\ NoFailureEvent) =>
        \A q \in ListedAs(box, mid) :
            AttrsUid(box, q) # 0 =>
            /\ responses[1].status = 200
            /\ responses[1].success /\ ~responses[1].partial
            /\ responses[1].kind = "email"
            /\ responses[1].body[1].uid = UidAt(box, q)

\* C22: the response of the configuration endpoint is the same in two
\* server states that differ only in a secret: replacing the API key the
\* process was started with by any other leaves the response unchanged.
C22_ConfigIndependentOfSecrets ==
    configResp # <<>> =>
        \A k \in ApiKeys : config([env[1] EXCEPT !["OPENAI_API_KEY"] = k]) = configResp[1]

\* the strings a response carries
StringsOf(r) ==
    CASE r.kind = "connect" -> {r.body[i] : i \in 1..Len(r.body)}
      [] r.kind = "folders" ->
            UNION {{r.body[i].name} \cup {r.body[i].path[j] : j \in 1..Len(r.body[i].path)} :
                   i \in 1..Len(r.body)}
      [] OTHER -> {}

\* the passwords given to the connect requests so far
PasswordsGiven == {Password(n) : n \in 1..(nextHandle - 1)}

\* a handle on which logout called end()
LoggedOut(h) == sigints = 0 /\ endCalls[h] >= 1

\* C23: no response of a connect, logout or folder request carries a password
\* given to connect, the account state of the client holds the empty
\* password, and no registry entry maps to a handle whose session logout
\* has removed.
C23_PasswordOnlyInHandle ==
    /\ \A i \in 1..Len(ctlResp) : StringsOf(ctlResp[i]) \cap PasswordsGiven = {}
    /\ \A i \in 1..Len(responses) : StringsOf(responses[i]) \cap PasswordsGiven = {}
    /\ account # NoAccount => account.password = ""
    /\ \A h \in Handles : LoggedOut(h) => \A s \in SessionIds : activeConnections[s] # h

\* a client that logged in, and a session that logout removed while its
\* handle still holds the password
C23_Witness ==
    /\ account # NoAccount
    /\ \E h \in Handles : LoggedOut(h) /\ imapConfig[h] = Password(h)
    /\ \E i \in 1..Len(responses) : responses[i].kind = "folders" /\ responses[i].body # <<>>

\* a listing or single-message request whose fetch was issued and that has
\* no response yet
FetchStage == ep \in {"emails", "email"} /\ pc = "fetching" /\ Len(responses) = 0

\* C24: under fairness of the watchdog timers, every listing request and
\* every single-message request that reached the fetch stage is eventually
\* answered.
C24_EventuallyAnswered == FetchStage ~> (Len(responses) >= 1)

\* C25: in a forward request whose re-fetch delivered the original message
\* and whose parser did not fail, the dispatched mail is composed from the
\* parsed original, whichever of the fetch 'end' event and the parser's
\* callback came first.
C25_ForwardUsesParsedOriginal ==
    (ep = "forward" /\ fwd.message /\ fwd.parser # "failed" /\ fwd.composedFrom # "none")
        => fwd.composedFrom = "parsed"

\* the set-seen operations a request issued
SetFlagsOps == {i \in 1..Len(ops) : ops[i].op = "setFlags"}

\* C26: a single-message request issues setFlags at most once, and one that
\* issued it is answered with the success response that carries the parsed
\* message, never with the watchdog's 504 or the 404.
C26_SetFlagsOnlyOnSuccess ==
    (ep = "email" /\ SetFlagsOps # {}) =>
        /\ Cardinality(SetFlagsOps) <= 1
        /\ Len(responses) >= 1
        /\ responses[1].status = 200 /\ responses[1].kind = "email" /\ ~responses[1].partial

\* C27: when building the result raised after the parser resolved, and no
\* other handler of the request has answered or can have answered, the
\* request is answered with the degraded success response.
C27_BuildExceptionDegrades ==
    (ep = "email" /\ parser = "threw" /\ timeout # "fired"
        /\ ~uidFetch.end /\ ~uidFetch.error)
        => responses = <<fallbackEmail(mid)>>

\* C28: a listing whose range holds a message with a disposition without a
\* type does not bring the process down: the error of the structure walk is
\* caught, so that the request can still be answered.
C28_WalkErrorCaught ==
    (ep = "emails" /\ pc = "fetching" /\ box.badStructAt \in lst.start..lst.last)
        => ~crashed

\* the fetches a request issued
FetchOps == {i \in 1..Len(ops) : ops[i].op \in {"fetch", "seq.fetch"}}

\* C29: a listing or single-message request has issued a fetch or armed its
\* watchdog only when openBox selected the folder, and a request whose
\* openBox failed has exactly the one error response, no fetch and no timer.
C29_FetchOnlyAfterSelect ==
    ep \in {"emails", "email"} =>
        /\ (FetchOps # {} \/ timeout # "none") => box.selected
        /\ (\E i \in 1..Len(responses) : responses[i].kind = "openBox") =>
               /\ responses = <<ErrorResp(500, "openBox")>>
               /\ FetchOps = {}
               /\ timeout = "none"

\* a single-message request whose folder could not be selected was answered
C29_Witness ==
    /\ ep = "email" /\ pc = "done" /\ ~box.selected
    /\ responses = <<ErrorResp(500, "openBox")>>
    /\ OpNames(ops) = {"openBox"}

\* a step of the listing's fetch 'error' handler
ListErrorStep == ep = "emails" /\ ~lst.error /\ lst'.error

\* C30: the step of the listing's fetch 'error' handler that finds no
\* response sent leaves the watchdog cancelled and sends one response:
\* success with the accumulated summaries and partial set when there is at
\* least one summary, the 500 failure otherwise.
C30_ListErrorBeforeResponse ==
    [][(ListErrorStep /\ ~hasResponded) =>
          /\ timeout' = "cleared"
          /\ responses' = Append(responses,
                 IF Len(emails) > 0 THEN Resp(200, TRUE, TRUE, "emails", emails)
                 ELSE ErrorResp(500, "fetch"))]_vars

\* the 'error' event arrived after two summaries were accumulated and
\* before any response
C30_Witness ==
    /\ ep = "emails" /\ lst.error /\ ~lst.end /\ timeout = "cleared"
    /\ Len(emails) = 2
    /\ responses = <<Resp(200, TRUE, TRUE, "emails", emails)>>

\* C31: for one session whose send request carries an explicit submission
\* host, the submission client that forward-email creates is configured as
\* the one send-email creates: same host, port, security and credentials.
C31_ForwardSameTransport ==
    (sendTransport # <<>> /\ fwdTransport # <<>> /\ smtpIn[1].smtpConfig.host # <<>>)
        => sendTransport[1] = fwdTransport[1]

\* every operation of the request in flight is on the handle that was
\* registered under its session id when it entered
OpsOnSessionHandle ==
    (ep \in SessionEndpoints /\ ops # <<>>) =>
        /\ MapHas(regAtEntry, sid)
        /\ \A i \in 1..Len(ops) : ops[i].h = regAtEntry[sid]

\* the session of the request in flight is registered before and after the
\* step
SessionStays ==
    /\ ep \in SessionEndpoints /\ ep' = ep /\ sid' = sid
    /\ MapHas(activeConnections, sid) /\ MapHas(activeConnections', sid)

\* C32: a request carrying session id A operates only on the handle
\* registered under A, and no step of another client changes the handle
\* that A's requests operate on: while A stays registered, it maps to the
\* same handle, and so to the same credentials.
C32_SessionIsolation ==
    /\ []OpsOnSessionHandle
    /\ [][SessionStays =>
            /\ activeConnections'[sid] = activeConnections[sid]
            /\ imapConfig'[activeConnections[sid]] = imapConfig[activeConnections[sid]]]_vars

\* C34: every summary the listing has accumulated has a valid date, so the
\* comparator of the sort orders every pair of them by date and never by
\* numeric id.
C34_SummaryDatesValid ==
    ep = "emails" =>
        /\ \A i \in 1..Len(emails) : ~isNaN(emails[i].date)
        /\ \A i, j \in 1..Len(emails) :
               compare(emails[i], emails[j]) = emails[j].date - emails[i].date

\* a listing completed that holds a message whose Date header did not parse
\* beside another message
C34_Witness ==
    /\ ep = "emails" /\ lst.end /\ Len(emails) >= 2
    /\ \E i \in 1..Len(emails) : emails[i].seqno = box.badDateAt
    /\ \E r \in 1..Len(responses) : responses[r].kind = "emails" /\ ~responses[r].partial

\* a listing accumulated the summary of a message without a Date header
C34_WitnessNoHeader ==
    /\ ep = "emails" /\ \E i \in 1..Len(emails) : emails[i].seqno = box.noDateAt

\* the step is a successful connect that wrote the new handle under one id
RegistryAdd ==
    /\ ConnectStep /\ ctlReq'.op = "connect" /\ ctlResp'[1].success
    /\ \E s \in SessionIds : activeConnections' = MapSet(activeConnections, s, nextHandle)

\* the step is a logout of a registered id that removed its entry
RegistryRemove ==
    /\ ctlReq'.op = "logout" /\ nextHandle' = nextHandle
    /\ MapHas(activeConnections, ctlReq'.sessionId)
    /\ activeConnections' = [activeConnections EXCEPT ![ctlReq'.sessionId] = NoHandle]

C35_RestoreRejectedReturnsFalse ==
    (restore.pc = "done" /\ restore.sid # NoSession) =>
        /\ (~restore.folders.success \/ ~restore.emails.success) =>
               (restore.result = FALSE /\ sessionId = NoSession)
        /\ restore.result = TRUE => (restore.folders.success /\ restore.emails.success)

\* C36: while a fetchPromise for an id is pending, no step adds a second
\* fetchPromise (a new server request) for that id, whichever render's
\* fetchEmail is called.
C36_OneFetchPerId ==
    [][\A id \in Ids :
         (\E f \in fetches : f.id = id) => ~ \E g \in fetches' \ fetches : g.id = id]_vars

\* C37: once deleteEmail(id) of a logged-in client has completed for a
\* listed message, the server answered the delete request with success,
\* the message is not in the client's list and it is not the selected one.
C37_DeletedMessageGone ==
    (del.pc = "done" /\ del.listed) =>
        /\ del.answer.success
        /\ ~InList(del.id)
        /\ selectedEmail # del.id

====
